---- MODULE Spec2Model ----
(***************************************************************************)
(* Model of the jd-notes-backend authentication layer: the login rate      *)
(* limiter, the login / register / refresh handlers and the bearer-token   *)
(* middleware.                                                             *)
(*                                                                         *)
(* Strings that the code inspects character by character (identifiers,     *)
(* e-mail addresses, passwords) are sequences of one-character strings.    *)
(* Fixed texts of the responses are TLA+ strings.                          *)
(* Time is counted in ticks of seven and a half minutes.                    *)
(***************************************************************************)
EXTENDS Integers, Sequences, FiniteSets, TLC

(***************************************************************************)
(* Bounds of the model.                                                    *)
(***************************************************************************)
\* the last tick of the clock where only the rate limiter is exercised
MaxTime == 2
\* the last tick of the clock where logins reach the accounts
MaxLoginTime == 1
\* size of the users collection
MaxUsers == 3
\* register requests the clients send
MaxRequests == 2
\* the _ids the notes collection hands out
MaxNotes == 2
\* pieces a string handed to sanitizeInput is put together from
MaxPieces == 3

(***************************************************************************)
(* Characters.                                                             *)
(***************************************************************************)
UpperSeq == <<"A","B","C","D","E","F","G","H","I","J","K","L","M",
              "N","O","P","Q","R","S","T","U","V","W","X","Y","Z">>
LowerSeq == <<"a","b","c","d","e","f","g","h","i","j","k","l","m",
              "n","o","p","q","r","s","t","u","v","w","x","y","z">>
UpperChars == {UpperSeq[i] : i \in 1..26}
LowerChars == {LowerSeq[i] : i \in 1..26}
DigitChars == {"0","1","2","3","4","5","6","7","8","9"}
\* \w of the regular expressions
WordChars == UpperChars \cup LowerChars \cup DigitChars \cup {"_"}
\* \s of the regular expressions (the characters the model uses)
SpaceChars == {" "}
\* the class [!@#$%^&*(),.?":{}|<>] of validatePassword
SpecialChars == {"!","@","#","$","%","^","&","*","(",")",",",".","?",
                 "\"",":","{","}","|","<",">"}

ToLowerChar(c) ==
  IF c \in UpperChars
    THEN LowerSeq[CHOOSE i \in 1..26 : UpperSeq[i] = c]
    ELSE c

\* String.prototype.toLowerCase
toLowerCase(s) == [i \in 1..Len(s) |-> ToLowerChar(s[i])]

\* String.prototype.trim
RECURSIVE TrimLeft(_)
TrimLeft(s) ==
  IF s # << >> /\ Head(s) \in SpaceChars THEN TrimLeft(Tail(s)) ELSE s

RECURSIVE TrimRight(_)
TrimRight(s) ==
  IF s # << >> /\ s[Len(s)] \in SpaceChars
    THEN TrimRight(SubSeq(s, 1, Len(s) - 1))
    ELSE s

trim(s) == TrimRight(TrimLeft(s))

\* str.replace(/[...]/g, ''): every character of the class is dropped
RemoveChars(s, class) == SelectSeq(s, LAMBDA c : c \notin class)

JavascriptMarker == <<"j","a","v","a","s","c","r","i","p","t",":">>

\* length of the match of /javascript:/i starting at position i, 0 if none
MatchJavascript(s, i) ==
  IF /\ i + Len(JavascriptMarker) - 1 <= Len(s)
     /\ toLowerCase(SubSeq(s, i, i + Len(JavascriptMarker) - 1)) = JavascriptMarker
    THEN Len(JavascriptMarker)
    ELSE 0

\* end of the maximal run of \w characters that starts at position i
RECURSIVE WordRunEnd(_, _)
WordRunEnd(s, i) ==
  IF i <= Len(s) /\ s[i] \in WordChars THEN WordRunEnd(s, i + 1) ELSE i - 1

\* length of the match of /on\w+=/i starting at position i, 0 if none.
\* '=' is not a \w character, so the greedy \w+ must take the whole run
\* of word characters and be followed directly by '='.
MatchOnHandler(s, i) ==
  IF /\ i + 3 <= Len(s)
     /\ ToLowerChar(s[i]) = "o"
     /\ ToLowerChar(s[i + 1]) = "n"
     /\ s[i + 2] \in WordChars
     /\ WordRunEnd(s, i + 2) + 1 <= Len(s)
     /\ s[WordRunEnd(s, i + 2) + 1] = "="
    THEN WordRunEnd(s, i + 2) + 1 - i + 1
    ELSE 0

\* str.replace(/javascript:/gi, ''): one left-to-right pass, the matches
\* are found in the original string and do not overlap
RECURSIVE RemoveJavascript(_, _)
RemoveJavascript(s, i) ==
  IF i > Len(s) THEN << >>
  ELSE IF MatchJavascript(s, i) > 0
    THEN RemoveJavascript(s, i + MatchJavascript(s, i))
    ELSE <<s[i]>> \o RemoveJavascript(s, i + 1)

\* str.replace(/on\w+=/gi, '')
RECURSIVE RemoveOnHandlers(_, _)
RemoveOnHandlers(s, i) ==
  IF i > Len(s) THEN << >>
  ELSE IF MatchOnHandler(s, i) > 0
    THEN RemoveOnHandlers(s, i + MatchOnHandler(s, i))
    ELSE <<s[i]>> \o RemoveOnHandlers(s, i + 1)

\* helpers.js sanitizeInput, for a string argument
sanitizeInput(input) ==
  trim(RemoveOnHandlers(
         RemoveJavascript(
           RemoveChars(RemoveChars(input, {"<", ">"}), {"'", "\""}), 1), 1))

\* helpers.js validateEmail: /^[^\s@]+@[^\s@]+\.[^\s@]+$/
validateEmail(email) ==
  \E a \in 2..Len(email) :
    \E d \in (a + 2)..(Len(email) - 1) :
      /\ email[a] = "@"
      /\ email[d] = "."
      /\ \A i \in 1..Len(email) :
           /\ email[i] \notin SpaceChars
           /\ (email[i] = "@" => i = a)

HasChar(s, class) == \E i \in 1..Len(s) : s[i] \in class

\* auth.js calculatePasswordStrength
calculatePasswordStrength(password) ==
  LET score ==
        (IF Len(password) >= 8 THEN 1 ELSE 0)
      + (IF Len(password) >= 12 THEN 1 ELSE 0)
      + (IF Len(password) >= 16 THEN 1 ELSE 0)
      + (IF HasChar(password, LowerChars) THEN 1 ELSE 0)
      + (IF HasChar(password, UpperChars) THEN 1 ELSE 0)
      + (IF HasChar(password, DigitChars) THEN 1 ELSE 0)
      + (IF \E i \in 1..Len(password) :
              password[i] \notin (UpperChars \cup LowerChars \cup DigitChars)
           THEN 1 ELSE 0)
  IN  IF score <= 2 THEN "weak"
      ELSE IF score <= 4 THEN "medium"
      ELSE IF score <= 6 THEN "strong"
      ELSE "very-strong"

minLength == 8

\* auth.js validatePassword
validatePassword(password) ==
  LET errors ==
           (IF Len(password) < minLength
              THEN <<"Password must be at least 8 characters long">> ELSE << >>)
        \o (IF ~HasChar(password, UpperChars)
              THEN <<"Password must contain at least one uppercase letter">> ELSE << >>)
        \o (IF ~HasChar(password, LowerChars)
              THEN <<"Password must contain at least one lowercase letter">> ELSE << >>)
        \o (IF ~HasChar(password, DigitChars)
              THEN <<"Password must contain at least one number">> ELSE << >>)
        \o (IF ~HasChar(password, SpecialChars)
              THEN <<"Password must contain at least one special character">> ELSE << >>)
  IN  [isValid |-> errors = << >>,
       errors |-> errors,
       strength |-> calculatePasswordStrength(password)]

(***************************************************************************)
(* Program constants.                                                      *)
(***************************************************************************)
\* constants/api.js HTTP_STATUS: it has no TOO_MANY_REQUESTS entry
HTTP_STATUS ==
  [OK |-> 200, CREATED |-> 201, BAD_REQUEST |-> 400, UNAUTHORIZED |-> 401,
   FORBIDDEN |-> 403, NOT_FOUND |-> 404, CONFLICT |-> 409,
   UNPROCESSABLE_ENTITY |-> 422, INTERNAL_SERVER_ERROR |-> 500,
   SERVICE_UNAVAILABLE |-> 503]

\* HTTP_STATUS.<name>: a property the frozen object lacks reads as
\* undefined, which the HTTP layer coerces to 0 (statusCode |= 0)
HttpStatus(name) ==
  IF name \in DOMAIN HTTP_STATUS THEN HTTP_STATUS[name] ELSE 0

\* constants/api.js API_MESSAGES.INTERNAL_SERVER_ERROR
INTERNAL_SERVER_ERROR_MESSAGE == "Internal server error"

\* checkRateLimit: 15 * 60 * 1000 ms, in ticks
windowMs == 2
\* checkRateLimit: admitted attempts per window
maxAttempts == 5
\* User model: failed logins that lock the account
MAX_LOGIN_ATTEMPTS == 5
\* User model: the lock lasts two hours, in ticks
LOCK_TIME == 16
\* auth.js JWT_SECRET, and a key that is not the server's
JWT_SECRET == "your-super-secret-jwt-key-change-in-production"
OtherSecret == "not-the-server-key"
\* auth.js JWT_EXPIRES_IN '7d' and JWT_REFRESH_EXPIRES_IN '30d', in ticks
JWT_EXPIRES_IN == 1344
JWT_REFRESH_EXPIRES_IN == 5760

(***************************************************************************)
(* Values the requests are drawn from.                                     *)
(***************************************************************************)
IPs == {"10.0.0.1", "10.0.0.2"}
UserIds == 1..MaxUsers
Slots == 1..MaxRequests
NoteIds == 1..MaxNotes
Empty == << >>

NameAlice == <<"a","l","i">>
NameBob == <<"b","o","b">>
NameEve == <<"e","v","e">>
MailAlice == <<"a","@","x",".","y">>
MailBob == <<"b","@","x",".","y">>
PwAlice == <<"A","l","i","c","e","#","0","1">>
PwBob == <<"B","o","b","b","y","?","2","3","4">>

VARIABLES
  now,        \* the clock, Date.now(), in ticks
  attempts,   \* global.loginAttempts: client IP -> times of admitted attempts
  users,      \* the users collection: _id -> document, or NoUser
  held,       \* tokens that clients received and kept
  last,       \* observation: the request handled last and its response
  admitted,   \* observation: per IP, the admitted attempts still in the window
  streak,     \* observation: per account, its consecutive wrong-password
              \* failures
  reg,        \* the requests in flight: where each handler stands, what it
              \* holds and what it answered
  notes,      \* the notes collection: per _id the stored document
  db          \* config/database.js: cachedConnection, the readyState of
              \* mongoose.connection and whether MONGODB_URI is defined

vars == <<now, attempts, users, held, last, admitted, streak, reg, notes, db>>

\* no call of connectToDatabase was made yet
NotConnected == [cachedConnection |-> "null", readyState |-> 0, MONGODB_URI |-> TRUE]
\* connectToDatabase returned the connection and it is up
Connected == [cachedConnection |-> "connection", readyState |-> 1, MONGODB_URI |-> TRUE]

NoUser == [absent |-> TRUE]
NoRequest == [op |-> "none"]
\* an _id of the notes collection that holds no document
NoNote == [absent |-> TRUE]
\* the data of a register request that was answered before it was sanitized
NoData == [none |-> TRUE]
\* a register request not sent yet
Idle == [pc |-> "idle"]

(***************************************************************************)
(* The User model.                                                         *)
(***************************************************************************)
\* password hashing (pre-save hook): one-way, compared by re-hashing
Hash(password) == [bcrypt |-> password]

\* user.comparePassword(candidate)
comparePassword(user, candidate) == Hash(candidate) = user.password

\* virtual isLocked: a lock is set and has not expired
isLocked(user, t) == user.lockUntil > t

\* user.incLoginAttempts(): count the failure, lock at the threshold
incLoginAttempts(user, t) ==
  IF user.loginAttempts + 1 >= MAX_LOGIN_ATTEMPTS /\ ~isLocked(user, t)
    THEN [user EXCEPT !.loginAttempts = @ + 1, !.lockUntil = t + LOCK_TIME]
    ELSE [user EXCEPT !.loginAttempts = @ + 1]

\* user.resetLoginAttempts()
resetLoginAttempts(user) ==
  [user EXCEPT !.loginAttempts = 0, !.lockUntil = 0]

\* user.updateLastLogin()
updateLastLogin(user, t) == [user EXCEPT !.lastLogin = t]

\* new User({...sanitizedData, password}) followed by save()
NewUser(data, password) ==
  [username |-> data.username, email |-> data.email,
   firstName |-> data.firstName, lastName |-> data.lastName,
   password |-> Hash(password), isActive |-> TRUE,
   loginAttempts |-> 0, lockUntil |-> 0, lastLogin |-> -1]

Present(us) == {id \in DOMAIN us : us[id] # NoUser}

\* User.findByEmailOrUsername(identifier): the _id found, 0 if none
findByEmailOrUsername(us, identifier) ==
  LET found == {id \in Present(us) :
                  us[id].email = identifier \/ us[id].username = identifier}
  IN  IF found = {} THEN 0 ELSE CHOOSE id \in found : \A o \in found : id <= o

\* User.emailExists / User.usernameExists
emailExists(us, email) == \E id \in Present(us) : us[id].email = email
usernameExists(us, username) == \E id \in Present(us) : us[id].username = username

\* User.findById(id)
findById(us, id) == IF id \in Present(us) THEN us[id] ELSE NoUser

(***************************************************************************)
(* Tokens (utils/auth.js).                                                 *)
(***************************************************************************)
\* jwt.sign(payload, key, {expiresIn})
Sign(payload, key, expiresIn, t) ==
  [payload |-> payload, key |-> key, exp |-> t + expiresIn]

\* generateToken
generateToken(payload, expiresIn, t) == Sign(payload, JWT_SECRET, expiresIn, t)

\* generateTokenPair
generateTokenPair(id, user, t) ==
  [accessToken |->
     generateToken([userId |-> id, username |-> user.username,
                    email |-> user.email], JWT_EXPIRES_IN, t),
   refreshToken |-> generateToken([userId |-> id], JWT_REFRESH_EXPIRES_IN, t),
   expiresIn |-> JWT_EXPIRES_IN]

\* a string that is no JWT at all
Garbage == [malformed |-> TRUE]

\* verifyToken: jwt.verify checks the structure, the signature and the
\* expiry; every failure is rethrown as 'Invalid or expired token'
verifyToken(token, t) ==
  IF /\ "payload" \in DOMAIN token
     /\ token.key = JWT_SECRET
     /\ t < token.exp
    THEN [ok |-> TRUE, decoded |-> token.payload]
    ELSE [ok |-> FALSE, message |-> "Invalid or expired token"]

(***************************************************************************)
(* The login rate limiter (utils/auth.js).                                 *)
(***************************************************************************)
\* attempts.get(identifier) || [] restricted to the window
recentAttempts(att, identifier, t) ==
  SelectSeq(att[identifier], LAMBDA time : t - time < windowMs)

\* checkRateLimit whose window still holds an attempt that is exactly
\* windowMs old
checkRateLimit_ClosedWindow(att, identifier, t) ==
  IF Len(SelectSeq(att[identifier], LAMBDA time : t - time <= windowMs)) >= maxAttempts
    THEN [allowed |-> FALSE, attempts |-> att]
    ELSE [allowed |-> TRUE,
          attempts |-> [att EXCEPT ![identifier] =
                          Append(SelectSeq(att[identifier],
                                           LAMBDA time : t - time <= windowMs), t)]]

\* checkRateLimit: the verdict and the map it leaves in global.loginAttempts
checkRateLimit(att, identifier, t) ==
  IF Len(recentAttempts(att, identifier, t)) >= maxAttempts
    THEN [allowed |-> FALSE, attempts |-> att]
    ELSE [allowed |-> TRUE,
          attempts |-> [att EXCEPT ![identifier] =
                          Append(recentAttempts(att, identifier, t), t)]]

(***************************************************************************)
(* POST /api/auth/login (routes/auth.js).                                  *)
(***************************************************************************)
\* a status code the HTTP layer accepts; any other makes the send throw
ValidStatus(code) == code \in 100..999

\* res.status(code).json(body) inside the try block of the login handler:
\* a send that throws lands in the catch block, which answers 500
LoginSend(code, body) ==
  IF ValidStatus(code)
    THEN [status |-> code, body |-> body]
    ELSE [status |-> HttpStatus("INTERNAL_SERVER_ERROR"),
          body |-> [error |-> INTERNAL_SERVER_ERROR_MESSAGE,
                    message |-> "Login failed"]]

AuthenticationFailed ==
  [error |-> "Authentication Failed", message |-> "Invalid credentials"]

AccountLocked ==
  [error |-> "Account Locked",
   message |-> "Account is temporarily locked due to too many failed login attempts"]

AccountInactive ==
  [error |-> "Account Inactive", message |-> "Your account has been deactivated"]

TooManyAttempts ==
  [error |-> "Too Many Attempts",
   message |-> "Too many login attempts. Please try again later.",
   retryAfter |-> "15 minutes"]

\* loginAuthenticate without the lock check
loginAuthenticate_NoLockCheck(us, id, password, t) ==
  IF id = 0
    THEN [send |-> LoginSend(HttpStatus("UNAUTHORIZED"), AuthenticationFailed),
          users |-> us, compared |-> FALSE]
  ELSE IF ~us[id].isActive
    THEN [send |-> LoginSend(HttpStatus("UNAUTHORIZED"), AccountInactive),
          users |-> us, compared |-> FALSE]
  ELSE IF ~comparePassword(us[id], password)
    THEN [send |-> LoginSend(HttpStatus("UNAUTHORIZED"), AuthenticationFailed),
          users |-> [us EXCEPT ![id] = incLoginAttempts(@, t)],
          compared |-> TRUE]
  ELSE [send |-> LoginSend(HttpStatus("OK"),
                  [success |-> TRUE, message |-> "Login successful",
                   tokens |-> generateTokenPair(id, us[id], t),
                   timestamp |-> t]),
        users |-> [us EXCEPT ![id] = updateLastLogin(resetLoginAttempts(@), t)],
        compared |-> TRUE]

\* loginAuthenticate with the lock check after the password check
loginAuthenticate_LockCheckLate(us, id, password, t) ==
  IF id = 0
    THEN [send |-> LoginSend(HttpStatus("UNAUTHORIZED"), AuthenticationFailed),
          users |-> us, compared |-> FALSE]
  ELSE IF ~us[id].isActive
    THEN [send |-> LoginSend(HttpStatus("UNAUTHORIZED"), AccountInactive),
          users |-> us, compared |-> FALSE]
  ELSE IF ~comparePassword(us[id], password)
    THEN [send |-> LoginSend(HttpStatus("UNAUTHORIZED"), AuthenticationFailed),
          users |-> [us EXCEPT ![id] = incLoginAttempts(@, t)],
          compared |-> TRUE]
  ELSE IF isLocked(us[id], t)
    THEN [send |-> LoginSend(HttpStatus("UNAUTHORIZED"), AccountLocked),
          users |-> us, compared |-> TRUE]
  ELSE [send |-> LoginSend(HttpStatus("OK"),
                  [success |-> TRUE, message |-> "Login successful",
                   tokens |-> generateTokenPair(id, us[id], t),
                   timestamp |-> t]),
        users |-> [us EXCEPT ![id] = updateLastLogin(resetLoginAttempts(@), t)],
        compared |-> TRUE]

\* loginAuthenticate telling an unknown identifier from a wrong password
loginAuthenticate_RevealsUnknown(us, id, password, t) ==
  IF id = 0
    THEN [send |-> LoginSend(HttpStatus("NOT_FOUND"),
                     [error |-> "User Not Found",
                      message |-> "User account not found"]),
          users |-> us, compared |-> FALSE]
  ELSE IF isLocked(us[id], t)
    THEN [send |-> LoginSend(HttpStatus("UNAUTHORIZED"), AccountLocked),
          users |-> us, compared |-> FALSE]
  ELSE IF ~us[id].isActive
    THEN [send |-> LoginSend(HttpStatus("UNAUTHORIZED"), AccountInactive),
          users |-> us, compared |-> FALSE]
  ELSE IF ~comparePassword(us[id], password)
    THEN [send |-> LoginSend(HttpStatus("UNAUTHORIZED"), AuthenticationFailed),
          users |-> [us EXCEPT ![id] = incLoginAttempts(@, t)],
          compared |-> TRUE]
  ELSE [send |-> LoginSend(HttpStatus("OK"),
                  [success |-> TRUE, message |-> "Login successful",
                   tokens |-> generateTokenPair(id, us[id], t),
                   timestamp |-> t]),
        users |-> [us EXCEPT ![id] = updateLastLogin(resetLoginAttempts(@), t)],
        compared |-> TRUE]

\* loginAuthenticate that leaves the failure counter alone on success
loginAuthenticate_NoReset(us, id, password, t) ==
  IF id = 0
    THEN [send |-> LoginSend(HttpStatus("UNAUTHORIZED"), AuthenticationFailed),
          users |-> us, compared |-> FALSE]
  ELSE IF isLocked(us[id], t)
    THEN [send |-> LoginSend(HttpStatus("UNAUTHORIZED"), AccountLocked),
          users |-> us, compared |-> FALSE]
  ELSE IF ~us[id].isActive
    THEN [send |-> LoginSend(HttpStatus("UNAUTHORIZED"), AccountInactive),
          users |-> us, compared |-> FALSE]
  ELSE IF ~comparePassword(us[id], password)
    THEN [send |-> LoginSend(HttpStatus("UNAUTHORIZED"), AuthenticationFailed),
          users |-> [us EXCEPT ![id] = incLoginAttempts(@, t)],
          compared |-> TRUE]
  ELSE LET reset == us[id]
           user == updateLastLogin(reset, t)
       IN  [send |-> LoginSend(HttpStatus("OK"),
                      [success |-> TRUE,
                       message |-> "Login successful",
                       user |-> [id |-> id, username |-> user.username,
                                 email |-> user.email,
                                 firstName |-> user.firstName,
                                 lastName |-> user.lastName,
                                 lastLogin |-> t],
                       tokens |-> generateTokenPair(id, user, t),
                       timestamp |-> t]),
            users |-> [us EXCEPT ![id] = user],
            compared |-> TRUE]

\* the part of the handler after the rate limiter: the lookup and what
\* follows it.  id is the _id that findByEmailOrUsername returned, 0 if none.
loginAuthenticate(us, id, password, t) ==
  IF id = 0
    THEN [send |-> LoginSend(HttpStatus("UNAUTHORIZED"), AuthenticationFailed),
          users |-> us, compared |-> FALSE]
  ELSE IF isLocked(us[id], t)
    THEN [send |-> LoginSend(HttpStatus("UNAUTHORIZED"), AccountLocked),
          users |-> us, compared |-> FALSE]
  ELSE IF ~us[id].isActive
    THEN [send |-> LoginSend(HttpStatus("UNAUTHORIZED"), AccountInactive),
          users |-> us, compared |-> FALSE]
  ELSE IF ~comparePassword(us[id], password)
    THEN [send |-> LoginSend(HttpStatus("UNAUTHORIZED"), AuthenticationFailed),
          users |-> [us EXCEPT ![id] = incLoginAttempts(@, t)],
          compared |-> TRUE]
  ELSE LET reset == IF us[id].loginAttempts > 0
                      THEN resetLoginAttempts(us[id]) ELSE us[id]
           user == updateLastLogin(reset, t)
       IN  [send |-> LoginSend(HttpStatus("OK"),
                      [success |-> TRUE,
                       message |-> "Login successful",
                       user |-> [id |-> id, username |-> user.username,
                                 email |-> user.email,
                                 firstName |-> user.firstName,
                                 lastName |-> user.lastName,
                                 lastLogin |-> t],
                       tokens |-> generateTokenPair(id, user, t),
                       timestamp |-> t]),
            users |-> [us EXCEPT ![id] = user],
            compared |-> TRUE]

\* the whole handler: validation, rate limiter, then loginAuthenticate
login(att, us, ip, identifier, password, t) ==
  IF identifier = Empty \/ password = Empty
    THEN [send |-> LoginSend(HttpStatus("BAD_REQUEST"),
                     [error |-> "Validation Error",
                      message |-> "Email/username and password are required"]),
          attempts |-> att, users |-> us,
          limiter |-> "skipped", lookedUp |-> FALSE, compared |-> FALSE]
  ELSE IF ~checkRateLimit(att, ip, t).allowed
    THEN [send |-> LoginSend(HttpStatus("TOO_MANY_REQUESTS"), TooManyAttempts),
          attempts |-> checkRateLimit(att, ip, t).attempts, users |-> us,
          limiter |-> "rejected", lookedUp |-> FALSE, compared |-> FALSE]
  ELSE LET id == findByEmailOrUsername(us, sanitizeInput(identifier))
           auth == loginAuthenticate(us, id, password, t)
       IN  [send |-> auth.send,
            attempts |-> checkRateLimit(att, ip, t).attempts,
            users |-> auth.users,
            limiter |-> "allowed", lookedUp |-> TRUE,
            compared |-> auth.compared]

\* the admitted attempts of one IP that lie inside the window at time t
InWindow(log, t) == SelectSeq(log, LAMBDA time : t - time < windowMs)

\* the observation of consecutive wrong-password failures of an account:
\* their number and the time of the first of them
NoStreak == [n |-> 0, since |-> 0]

Login(ip, identifier, password) ==
  \E r \in {login(attempts, users, ip, identifier, password, now)},
     \* the account the request names, whether or not the handler gets
     \* as far as looking it up
     target \in {findByEmailOrUsername(users, sanitizeInput(identifier))} :
    LET wrongPassword ==
          /\ target # 0
          /\ r.compared
          /\ r.send.body = AuthenticationFailed
        succeeded == target # 0 /\ r.send.status = 200
    IN  /\ attempts' = r.attempts
        /\ users' = r.users
        /\ admitted' = IF r.limiter = "allowed"
                         THEN [admitted EXCEPT ![ip] = Append(@, now)]
                         ELSE admitted
        /\ streak' =
             IF wrongPassword
               THEN [streak EXCEPT ![target] =
                       IF @.n = 0 THEN [n |-> 1, since |-> now]
                                  ELSE [@ EXCEPT !.n = @ + 1]]
             ELSE IF succeeded
               THEN [streak EXCEPT ![target] = NoStreak]
             ELSE streak
        /\ last' = [op |-> "login",
                    wellFormed |-> identifier # Empty /\ password # Empty,
                    status |-> r.send.status, body |-> r.send.body,
                    limiter |-> r.limiter,
                    room |-> Len(admitted[ip]) < maxAttempts,
                    lookedUp |-> r.lookedUp, compared |-> r.compared,
                    target |-> target,
                    correct |-> target # 0 /\ comparePassword(users[target], password),
                    locked |-> target # 0 /\ isLocked(users[target], now),
                    active |-> target # 0 /\ users[target].isActive,
                    fails |-> IF target # 0 /\ now - streak[target].since < windowMs
                                THEN streak[target].n ELSE 0,
                    counter |-> IF target = 0 THEN 0 ELSE users[target].loginAttempts,
                    untouched |-> r.users = users,
                    \* nothing but the failure counter and the lock changed
                    frame |-> \A id \in UserIds :
                                \/ r.users[id] = users[id]
                                \/ /\ id = target
                                   /\ r.users[id] =
                                        [users[id] EXCEPT
                                           !.loginAttempts = r.users[id].loginAttempts,
                                           !.lockUntil = r.users[id].lockUntil]]
        /\ UNCHANGED <<now, held, reg, notes, db>>

\* time passes: the clock moves to a later instant
AdvanceTo(t) ==
  /\ t > now
  /\ now' = t
  /\ admitted' = [ip \in IPs |-> InWindow(admitted[ip], t)]
  /\ last' = NoRequest
  /\ UNCHANGED <<attempts, users, held, streak, reg, notes, db>>

\* an administrator deactivates an account
DeactivateUser(id) ==
  /\ id \in Present(users)
  /\ users[id].isActive
  /\ users' = [users EXCEPT ![id].isActive = FALSE]
  /\ last' = NoRequest
  /\ UNCHANGED <<now, attempts, held, admitted, streak, reg, notes, db>>

(***************************************************************************)
(* Initial states.                                                         *)
(***************************************************************************)
SeedUsers ==
  [id \in UserIds |->
     IF id = 1
       THEN NewUser([username |-> NameAlice, email |-> MailAlice,
                     firstName |-> <<"A">>, lastName |-> <<"L">>], PwAlice)
       ELSE NoUser]

\* a server that has just started on a database holding one account
InitSeeded ==
  /\ now = 0
  /\ attempts = [ip \in IPs |-> << >>]
  /\ users = SeedUsers
  /\ held = {}
  /\ last = NoRequest
  /\ admitted = [ip \in IPs |-> << >>]
  /\ streak = [id \in UserIds |-> NoStreak]
  /\ reg = [r \in Slots |-> Idle]
  /\ notes = [n \in NoteIds |-> NoNote]
  /\ db = NotConnected

Bracketed(name) == <<"<">> \o name \o <<">">>

\* the login requests that name an account or nobody, with a right and a
\* wrong password, and the two requests with a missing field
LoginRequests ==
  {<<Bracketed(NameAlice), PwAlice>>, <<Bracketed(NameAlice), PwBob>>,
   <<MailAlice, PwAlice>>, <<NameEve, PwAlice>>,
   <<Empty, PwAlice>>, <<NameAlice, Empty>>}

NextLogin ==
  \/ \E ip \in IPs, rq \in LoginRequests : Login(ip, rq[1], rq[2])
  \/ \E t \in 0..MaxLoginTime : AdvanceTo(t)

SpecLogin == InitSeeded /\ [][NextLogin]_vars

\* the login requests that never reach an account
StrangerRequests == {<<NameEve, PwAlice>>, <<Empty, PwAlice>>}

NextLimiter ==
  \/ \E ip \in IPs, rq \in StrangerRequests : Login(ip, rq[1], rq[2])
  \/ \E t \in 0..MaxTime : AdvanceTo(t)

SpecLimiter == InitSeeded /\ [][NextLimiter]_vars

(***************************************************************************)
(* The bearer-token middleware (utils/auth.js) and the routes behind it.   *)
(***************************************************************************)
\* no Authorization header at all
NoHeader == [absent |-> TRUE]
\* the empty string after the scheme
EmptyToken == [empty |-> TRUE]
\* extractToken returning null
NoToken == [null |-> TRUE]

\* an Authorization header: the first seven characters and what follows
Header(scheme, credentials) == [scheme |-> scheme, credentials |-> credentials]

\* extractToken: the text after 'Bearer ', null for any other header
extractToken(authHeader) ==
  IF authHeader # NoHeader /\ authHeader.scheme = "Bearer "
    THEN authHeader.credentials
    ELSE NoToken

AccessDenied(message) == [error |-> "Access denied", message |-> message]

\* authenticateToken that lets a request through when verification fails
authenticateToken_NextOnFailure(authHeader, t) ==
  IF extractToken(authHeader) \in {NoToken, EmptyToken}
    THEN [next |-> 0, status |-> HttpStatus("UNAUTHORIZED"),
          body |-> AccessDenied("No token provided")]
    ELSE [next |-> 1,
          user |-> IF "payload" \in DOMAIN extractToken(authHeader)
                     THEN extractToken(authHeader).payload
                     ELSE [userId |-> 0]]

\* authenticateToken: next |-> 1 with req.user when the token verifies, else
\* the 401 it sends without calling next
authenticateToken(authHeader, t) ==
  IF extractToken(authHeader) \in {NoToken, EmptyToken}
    THEN [next |-> 0, status |-> HttpStatus("UNAUTHORIZED"),
          body |-> AccessDenied("No token provided")]
  ELSE IF ~verifyToken(extractToken(authHeader), t).ok
    THEN [next |-> 0, status |-> HttpStatus("UNAUTHORIZED"),
          body |-> AccessDenied(verifyToken(extractToken(authHeader), t).message)]
  ELSE [next |-> 1, user |-> verifyToken(extractToken(authHeader), t).decoded]

\* GET /me behind authenticateToken
me(us, reqUser, t) ==
  IF findById(us, reqUser.userId) = NoUser
    THEN [status |-> HttpStatus("NOT_FOUND"),
          body |-> [error |-> "User Not Found",
                    message |-> "User account not found"]]
    ELSE LET user == findById(us, reqUser.userId)
         IN  [status |-> HttpStatus("OK"),
              body |-> [success |-> TRUE,
                        user |-> [id |-> reqUser.userId,
                                  username |-> user.username,
                                  email |-> user.email,
                                  firstName |-> user.firstName,
                                  lastName |-> user.lastName,
                                  isActive |-> user.isActive,
                                  lastLogin |-> user.lastLogin],
                        timestamp |-> t]]

\* POST /logout behind authenticateToken
logout(t) ==
  [status |-> HttpStatus("OK"),
   body |-> [success |-> TRUE, message |-> "Logged out successfully",
             timestamp |-> t]]

InvalidToken(message) == [error |-> "Invalid Token", message |-> message]

\* POST /refresh without the check that the user is still active
refresh_IgnoresInactive(us, refreshToken, t) ==
  IF refreshToken = EmptyToken
    THEN [status |-> HttpStatus("BAD_REQUEST"),
          body |-> [error |-> "Validation Error",
                    message |-> "Refresh token is required"]]
  ELSE IF ~verifyToken(refreshToken, t).ok
    THEN [status |-> HttpStatus("UNAUTHORIZED"),
          body |-> InvalidToken("Invalid or expired refresh token")]
  ELSE IF findById(us, verifyToken(refreshToken, t).decoded.userId) = NoUser
    THEN [status |-> HttpStatus("UNAUTHORIZED"),
          body |-> InvalidToken("User not found or inactive")]
  ELSE [status |-> HttpStatus("OK"),
        body |-> [success |-> TRUE,
                  message |-> "Token refreshed successfully",
                  tokens |-> generateTokenPair(
                               verifyToken(refreshToken, t).decoded.userId,
                               findById(us, verifyToken(refreshToken, t).decoded.userId),
                               t),
                  timestamp |-> t]]

\* POST /refresh; a missing refreshToken is EmptyToken
refresh(us, refreshToken, t) ==
  IF refreshToken = EmptyToken
    THEN [status |-> HttpStatus("BAD_REQUEST"),
          body |-> [error |-> "Validation Error",
                    message |-> "Refresh token is required"]]
  ELSE IF ~verifyToken(refreshToken, t).ok
    THEN [status |-> HttpStatus("UNAUTHORIZED"),
          body |-> InvalidToken("Invalid or expired refresh token")]
  ELSE LET id == verifyToken(refreshToken, t).decoded.userId
           user == findById(us, id)
       IN  IF user = NoUser \/ ~user.isActive
             THEN [status |-> HttpStatus("UNAUTHORIZED"),
                   body |-> InvalidToken("User not found or inactive")]
             ELSE [status |-> HttpStatus("OK"),
                   body |-> [success |-> TRUE,
                             message |-> "Token refreshed successfully",
                             tokens |-> generateTokenPair(id, user, t),
                             timestamp |-> t]]

\* a request to a route behind authenticateToken: op is "me" or "logout"
Protected(op, authHeader) ==
  \E auth \in {authenticateToken(authHeader, now)} :
    \E r \in {IF auth.next = 0 THEN [status |-> auth.status, body |-> auth.body]
              ELSE IF op = "me" THEN me(users, auth.user, now)
              ELSE logout(now)} :
      /\ last' = [op |-> op, header |-> authHeader,
                  status |-> r.status, body |-> r.body,
                  next |-> auth.next,
                  reqUser |-> IF auth.next = 1 THEN auth.user ELSE NoToken]
      /\ UNCHANGED <<now, attempts, users, held, admitted, streak, reg, notes, db>>

Refresh(refreshToken) ==
  \E r \in {refresh(users, refreshToken, now)} :
    /\ last' = [op |-> "refresh", token |-> refreshToken,
                status |-> r.status, body |-> r.body]
    /\ UNCHANGED <<now, attempts, users, held, admitted, streak, reg, notes, db>>

\* the client keeps the token pair of the response it has just received
KeepTokens ==
  /\ last.op \in {"login", "refresh"}
  /\ "tokens" \in DOMAIN last.body
  /\ held' = held \cup {last.body.tokens.accessToken, last.body.tokens.refreshToken}
  /\ held' # held
  /\ UNCHANGED <<now, attempts, users, last, admitted, streak, reg, notes, db>>

\* an administrator removes an account
DeleteUser(id) ==
  /\ id \in Present(users)
  /\ users' = [users EXCEPT ![id] = NoUser]
  /\ last' = NoRequest
  /\ UNCHANGED <<now, attempts, held, admitted, streak, reg, notes, db>>

\* what a client may present as a token: one it holds, one signed with
\* another key, or text that is no token
Forged == Sign([userId |-> 1], OtherSecret, JWT_REFRESH_EXPIRES_IN, 0)
Presentable == held \cup {Forged, Garbage}

Schemes == {"Bearer ", "bearer ", "Basic "}
Headers ==
  {NoHeader} \cup
  {Header(scheme, c) : scheme \in Schemes, c \in Presentable \cup {EmptyToken}}

\* the instants at which tokens are presented: at once, when the first
\* access token has just expired, when the first refresh token has
TokenInstants == {0, JWT_EXPIRES_IN, JWT_REFRESH_EXPIRES_IN}

NextToken ==
  \/ Login("10.0.0.1", MailAlice, PwAlice)
  \/ KeepTokens
  \/ \E op \in {"me", "logout"}, h \in Headers : Protected(op, h)
  \/ \E tok \in Presentable \cup {EmptyToken} : Refresh(tok)
  \/ \E t \in TokenInstants : AdvanceTo(t)
  \/ \E id \in UserIds : DeactivateUser(id)
  \/ \E id \in UserIds : DeleteUser(id)

SpecToken == InitSeeded /\ [][NextToken]_vars


(***************************************************************************)
(* POST /api/auth/register (routes/auth.js).                               *)
(***************************************************************************)
\* the User schema validators that run in save(): username of 3 to 30
\* characters, letters, digits and underscore; the other paths required
SchemaValid(doc) ==
  /\ Len(doc.username) >= 3
  /\ Len(doc.username) <= 30
  /\ \A i \in 1..Len(doc.username) : doc.username[i] \in WordChars
  /\ validateEmail(doc.email)
  /\ doc.firstName # Empty
  /\ doc.lastName # Empty

\* the unique indexes of the collection: the fields of doc that collide
DuplicateKeys(us, doc) ==
  {f \in {"email", "username"} : \E id \in Present(us) : us[id][f] = doc[f]}

\* the _id the collection gives the next document
FreshId(us) == CHOOSE id \in UserIds \ Present(us) : \A o \in UserIds \ Present(us) : id <= o

ValidationError(message) == [error |-> "Validation Error", message |-> message]

\* the handler up to its first await without the password-strength gate
registerValidate_NoPasswordGate(body) ==
  IF \E f \in {"username", "email", "password", "firstName", "lastName"} :
       body[f] = Empty
    THEN [ok |-> FALSE, status |-> HttpStatus("BAD_REQUEST"),
          body |-> ValidationError("All fields are required")]
  ELSE IF ~validateEmail(toLowerCase(trim(sanitizeInput(body.email))))
    THEN [ok |-> FALSE, status |-> HttpStatus("BAD_REQUEST"),
          body |-> ValidationError("Please provide a valid email address")]
  ELSE [ok |-> TRUE,
        data |-> [username |-> trim(sanitizeInput(body.username)),
                  email |-> toLowerCase(trim(sanitizeInput(body.email))),
                  firstName |-> trim(sanitizeInput(body.firstName)),
                  lastName |-> trim(sanitizeInput(body.lastName))]]

\* the handler up to its first await: required fields, sanitizing, e-mail
\* format, password strength
registerValidate(body) ==
  IF \E f \in {"username", "email", "password", "firstName", "lastName"} :
       body[f] = Empty
    THEN [ok |-> FALSE, status |-> HttpStatus("BAD_REQUEST"),
          body |-> [error |-> "Validation Error",
                    message |-> "All fields are required",
                    required |-> <<"username", "email", "password",
                                   "firstName", "lastName">>]]
  ELSE LET sanitizedData ==
             [username |-> trim(sanitizeInput(body.username)),
              email |-> toLowerCase(trim(sanitizeInput(body.email))),
              firstName |-> trim(sanitizeInput(body.firstName)),
              lastName |-> trim(sanitizeInput(body.lastName))]
           passwordValidation == validatePassword(body.password)
       IN  IF ~validateEmail(sanitizedData.email)
             THEN [ok |-> FALSE, status |-> HttpStatus("BAD_REQUEST"),
                   body |-> ValidationError("Please provide a valid email address")]
           ELSE IF ~passwordValidation.isValid
             THEN [ok |-> FALSE, status |-> HttpStatus("BAD_REQUEST"),
                   body |-> [error |-> "Validation Error",
                             message |-> "Password does not meet requirements",
                             requirements |-> passwordValidation.errors,
                             passwordStrength |-> passwordValidation.strength]]
           ELSE [ok |-> TRUE, data |-> sanitizedData]

\* the answers of the catch block to a save() that threw
registerCatch_DuplicateUnhandled(error) ==
  IF error.name = "ValidationError"
    THEN [status |-> HttpStatus("BAD_REQUEST"),
          body |-> [error |-> "Validation Error", message |-> "Invalid input data"]]
    ELSE [status |-> HttpStatus("INTERNAL_SERVER_ERROR"),
          body |-> [error |-> INTERNAL_SERVER_ERROR_MESSAGE,
                    message |-> "Failed to create account"]]

registerCatch(error) ==
  IF error.name = "ValidationError"
    THEN [status |-> HttpStatus("BAD_REQUEST"),
          body |-> [error |-> "Validation Error", message |-> "Invalid input data"]]
  ELSE IF error.code = 11000
    THEN [status |-> HttpStatus("CONFLICT"),
          body |-> [error |-> "Duplicate Entry", field |-> error.field,
                    message |-> "already exists"]]
  ELSE [status |-> HttpStatus("INTERNAL_SERVER_ERROR"),
        body |-> [error |-> INTERNAL_SERVER_ERROR_MESSAGE,
                  message |-> "Failed to create account"]]

\* res.status(status).json(body) ends the request; flags, data and created
\* record what the request was and which user record it made
Answer(r, status, body, flags, data, created) ==
  reg' = [reg EXCEPT ![r] = [pc |-> "done", status |-> status, body |-> body,
                             flags |-> flags, data |-> data,
                             created |-> created]]

\* the request arrives and the handler runs to its first await
RegisterStart(r, body) ==
  /\ reg[r].pc = "idle"
  /\ \E v \in {registerValidate(body)} :
       \E flags \in {[missing |-> \E f \in DOMAIN body : body[f] = Empty,
                      badEmail |->
                        ~validateEmail(toLowerCase(trim(sanitizeInput(body.email)))),
                      weak |-> ~validatePassword(body.password).isValid,
                      valid |-> v.ok /\ SchemaValid(v.data)]} :
         IF v.ok
           THEN reg' = [reg EXCEPT ![r] = [pc |-> "emailExists", data |-> v.data,
                                           password |-> body.password,
                                           flags |-> flags]]
           ELSE Answer(r, v.status, v.body, flags, NoData, 0)
  /\ UNCHANGED <<now, attempts, users, held, last, admitted, streak, notes, db>>

\* await User.emailExists(sanitizedData.email)
RegisterEmailExists(r) ==
  /\ reg[r].pc = "emailExists"
  /\ IF emailExists(users, reg[r].data.email)
       THEN Answer(r, HttpStatus("CONFLICT"),
                   [error |-> "User Already Exists",
                    message |-> "An account with this email already exists"],
                   reg[r].flags, reg[r].data, 0)
       ELSE reg' = [reg EXCEPT ![r].pc = "usernameExists"]
  /\ UNCHANGED <<now, attempts, users, held, last, admitted, streak, notes, db>>

\* await User.usernameExists(sanitizedData.username)
RegisterUsernameExists(r) ==
  /\ reg[r].pc = "usernameExists"
  /\ IF usernameExists(users, reg[r].data.username)
       THEN Answer(r, HttpStatus("CONFLICT"),
                   [error |-> "User Already Exists",
                    message |-> "This username is already taken"],
                   reg[r].flags, reg[r].data, 0)
       ELSE reg' = [reg EXCEPT ![r].pc = "save"]
  /\ UNCHANGED <<now, attempts, users, held, last, admitted, streak, notes, db>>

\* await newUser.save(), then generateTokenPair(newUser)
RegisterSave(r) ==
  /\ reg[r].pc = "save"
  /\ UserIds \ Present(users) # {}
  /\ LET doc == NewUser(reg[r].data, reg[r].password)
     IN  IF ~SchemaValid(doc)
           THEN /\ \E c \in {registerCatch([name |-> "ValidationError", code |-> 0])} :
                     Answer(r, c.status, c.body, reg[r].flags, reg[r].data, 0)
                /\ users' = users
         ELSE IF DuplicateKeys(users, doc) # {}
           THEN /\ \E f \in DuplicateKeys(users, doc) :
                     \E c \in {registerCatch([name |-> "MongoServerError",
                                               code |-> 11000, field |-> f])} :
                       Answer(r, c.status, c.body, reg[r].flags, reg[r].data, 0)
                /\ users' = users
         ELSE /\ users' = [users EXCEPT ![FreshId(users)] = doc]
              /\ reg' = [reg EXCEPT ![r] =
                           [pc |-> "updateLastLogin", id |-> FreshId(users),
                            tokens |-> generateTokenPair(FreshId(users), doc, now),
                            flags |-> reg[r].flags, data |-> reg[r].data]]
  /\ UNCHANGED <<now, attempts, held, last, admitted, streak, notes, db>>

\* await newUser.updateLastLogin(), then the 201 response
RegisterRespond(r) ==
  /\ reg[r].pc = "updateLastLogin"
  /\ users' = [users EXCEPT ![reg[r].id] = updateLastLogin(@, now)]
  /\ Answer(r, HttpStatus("CREATED"),
            [success |-> TRUE, message |-> "Account created successfully",
             user |-> [id |-> reg[r].id,
                       username |-> users[reg[r].id].username,
                       email |-> users[reg[r].id].email,
                       firstName |-> users[reg[r].id].firstName,
                       lastName |-> users[reg[r].id].lastName,
                       lastLogin |-> now],
             tokens |-> reg[r].tokens,
             timestamp |-> now],
            reg[r].flags, reg[r].data, reg[r].id)
  /\ UNCHANGED <<now, attempts, held, last, admitted, streak, notes, db>>

\* a server that has just started on an empty database
Init ==
  /\ now = 0
  /\ attempts = [ip \in IPs |-> << >>]
  /\ users = [id \in UserIds |-> NoUser]
  /\ held = {}
  /\ last = NoRequest
  /\ admitted = [ip \in IPs |-> << >>]
  /\ streak = [id \in UserIds |-> NoStreak]
  /\ reg = [r \in Slots |-> Idle]
  /\ notes = [n \in NoteIds |-> NoNote]
  /\ db = NotConnected

PwWeak == <<"w","e","a","k">>
NameShort == <<"a","l">>
MailAliceUpper == <<"A","@","x",".","y">>
MailInvalid == <<"a","x",".","y">>

RegisterBody(username, email, password, firstName, lastName) ==
  [username |-> username, email |-> email, password |-> password,
   firstName |-> firstName, lastName |-> lastName]

\* the register requests of the model
RegisterRequests ==
  {RegisterBody(u, e, p, <<"A">>, <<"L">>) :
     u \in {NameAlice, Bracketed(NameBob), NameShort},
     e \in {MailAlice, MailAliceUpper, MailBob, MailInvalid},
     p \in {PwAlice, PwWeak}}
  \cup {RegisterBody(Empty, MailAlice, PwAlice, <<"A">>, <<"L">>),
        RegisterBody(NameAlice, MailAlice, PwWeak, <<"A">>, Empty)}

Next ==
  \/ \E r \in Slots, body \in RegisterRequests : RegisterStart(r, body)
  \/ \E r \in Slots : RegisterEmailExists(r)
  \/ \E r \in Slots : RegisterUsernameExists(r)
  \/ \E r \in Slots : RegisterSave(r)
  \/ \E r \in Slots : RegisterRespond(r)

Spec == Init /\ [][Next]_vars


(***************************************************************************)
(* POST /api/auth/change-password (routes/auth.js).                        *)
(***************************************************************************)
\* the handler with the strength rules applied before the current password
\* is compared
changePassword_ValidatesFirst(us, reqUser, currentPassword, newPassword, t) ==
  IF currentPassword = Empty \/ newPassword = Empty
    THEN [status |-> HttpStatus("BAD_REQUEST"),
          body |-> [error |-> "Validation Error",
                    message |-> "Current password and new password are required"],
          users |-> us]
  ELSE IF findById(us, reqUser.userId) = NoUser
    THEN [status |-> HttpStatus("NOT_FOUND"),
          body |-> [error |-> "User Not Found",
                    message |-> "User account not found"],
          users |-> us]
  ELSE IF ~validatePassword(newPassword).isValid
    THEN [status |-> HttpStatus("BAD_REQUEST"),
          body |-> [error |-> "Validation Error",
                    message |-> "New password does not meet requirements",
                    requirements |-> validatePassword(newPassword).errors],
          users |-> us]
  ELSE IF ~comparePassword(findById(us, reqUser.userId), currentPassword)
    THEN [status |-> HttpStatus("UNAUTHORIZED"),
          body |-> [error |-> "Authentication Failed",
                    message |-> "Current password is incorrect"],
          users |-> us]
  ELSE [status |-> HttpStatus("OK"),
        body |-> [success |-> TRUE, message |-> "Password changed successfully",
                  timestamp |-> t],
        users |-> [us EXCEPT ![reqUser.userId].password = Hash(newPassword)]]

\* the handler behind authenticateToken: its answer and the collection it
\* leaves
changePassword(us, reqUser, currentPassword, newPassword, t) ==
  IF currentPassword = Empty \/ newPassword = Empty
    THEN [status |-> HttpStatus("BAD_REQUEST"),
          body |-> [error |-> "Validation Error",
                    message |-> "Current password and new password are required"],
          users |-> us]
  ELSE IF findById(us, reqUser.userId) = NoUser
    THEN [status |-> HttpStatus("NOT_FOUND"),
          body |-> [error |-> "User Not Found",
                    message |-> "User account not found"],
          users |-> us]
  ELSE IF ~comparePassword(findById(us, reqUser.userId), currentPassword)
    THEN [status |-> HttpStatus("UNAUTHORIZED"),
          body |-> [error |-> "Authentication Failed",
                    message |-> "Current password is incorrect"],
          users |-> us]
  ELSE IF ~validatePassword(newPassword).isValid
    THEN [status |-> HttpStatus("BAD_REQUEST"),
          body |-> [error |-> "Validation Error",
                    message |-> "New password does not meet requirements",
                    requirements |-> validatePassword(newPassword).errors],
          users |-> us]
  ELSE [status |-> HttpStatus("OK"),
        body |-> [success |-> TRUE, message |-> "Password changed successfully",
                  timestamp |-> t],
        users |-> [us EXCEPT ![reqUser.userId].password = Hash(newPassword)]]

\* a request to POST /change-password; last keeps what the request was and
\* the collection it found
ChangePassword(authHeader, currentPassword, newPassword) ==
  \E auth \in {authenticateToken(authHeader, now)} :
    \E r \in {IF auth.next = 0
                THEN [status |-> auth.status, body |-> auth.body, users |-> users]
                ELSE changePassword(users, auth.user, currentPassword,
                                    newPassword, now)} :
      /\ users' = r.users
      /\ last' = [op |-> "change-password", next |-> auth.next,
                  target |-> IF auth.next = 1 THEN auth.user.userId ELSE 0,
                  currentPassword |-> currentPassword,
                  newPassword |-> newPassword,
                  status |-> r.status, body |-> r.body, before |-> users]
      /\ UNCHANGED <<now, attempts, held, admitted, streak, reg, notes, db>>

PasswordInputs == {Empty, PwAlice, PwBob, PwWeak}

NextPassword ==
  \/ Login("10.0.0.1", MailAlice, PwAlice)
  \/ KeepTokens
  \/ \E c \in held \cup {Garbage}, cur \in PasswordInputs, new \in PasswordInputs :
       ChangePassword(Header("Bearer ", c), cur, new)
  \/ \E id \in UserIds : DeleteUser(id)

SpecPassword == InitSeeded /\ [][NextPassword]_vars

(***************************************************************************)
(* Notes: constants (constants/api.js), helpers (utils/helpers.js) and the *)
(* Note schema (models/Note.js).                                           *)
(***************************************************************************)
TITLE_MAX_LENGTH == 200
MAX_TAGS == 10
TAG_MAX_LENGTH == 50

CatGeneral == <<"G","e","n","e","r","a","l">>
CatPrayer == <<"P","r","a","y","e","r">>
CatSermons == <<"S","e","r","m","o","n","s">>
CatBibleStudy == <<"B","i","b","l","e"," ","S","t","u","d","y">>
CatMinistry == <<"M","i","n","i","s","t","r","y">>
CatPersonal == <<"P","e","r","s","o","n","a","l">>
NOTE_CATEGORIES ==
  {CatSermons, CatPrayer, CatBibleStudy, CatGeneral, CatMinistry, CatPersonal}
NOTE_TYPES ==
  {<<"s","e","r","m","o","n">>, <<"p","r","a","y","e","r">>,
   <<"s","t","u","d","y">>, <<"g","e","n","e","r","a","l">>,
   <<"m","i","n","i","s","t","r","y">>, <<"p","e","r","s","o","n","a","l">>}
Low == <<"l","o","w">>
Medium == <<"m","e","d","i","u","m">>
High == <<"h","i","g","h">>
PRIORITY_LEVELS == {Low, Medium, High}

NOTE_NOT_FOUND == "Note not found"
VALIDATION_ERROR == "Validation error"

\* createApiResponse(data, message), statusCode left at its default 200
createApiResponse(data, message) ==
  [success |-> TRUE, message |-> message, timestamp |-> now, data |-> data]

\* createErrorResponse(message, statusCode)
createErrorResponse(message, statusCode) ==
  [success |-> FALSE, error |-> message, timestamp |-> now,
   statusCode |-> statusCode]

HexChars == DigitChars \cup {"a","b","c","d","e","f","A","B","C","D","E","F"}

\* isValidObjectId: /^[0-9a-fA-F]{24}$/.test(id)
isValidObjectId(id) ==
  /\ Len(id) = 24
  /\ \A i \in 1..Len(id) : id[i] \in HexChars

DigitSeq == <<"0","1","2","3","4","5","6","7","8","9">>

\* the 24 hexadecimal characters of the n-th _id of the collection
ObjectId(n) == [i \in 1..24 |-> IF i = 24 THEN DigitSeq[n + 1] ELSE "a"]

\* the documents of the collection
Stored(ns) == {n \in DOMAIN ns : "title" \in DOMAIN ns[n]}

\* Note.findById(id): the _id whose hexadecimal form is id, 0 if none
FindNote(ns, id) ==
  LET found == {n \in Stored(ns) : ObjectId(n) = toLowerCase(id)}
  IN  IF found = {} THEN 0 ELSE CHOOSE n \in found : TRUE

\* a request body is a record that holds the fields the client sent
NoField == [k \in {} |-> 0]
Opt(present, key, value) == IF present THEN key :> value ELSE NoField

\* if (noteData.<key>): the field was sent and is not the empty string
Truthy(noteData, key) == key \in DOMAIN noteData /\ noteData[key] # << >>

\* array.slice(0, count)
Slice(array, count) ==
  SubSeq(array, 1, IF Len(array) < count THEN Len(array) ELSE count)

\* validateNoteData: the tags of the request, lower-cased and trimmed, the
\* empty and the over-long ones dropped, cut to the first MAX_TAGS
SanitizeTags(tags) ==
  Slice(SelectSeq([i \in 1..Len(tags) |-> trim(toLowerCase(tags[i]))],
                  LAMBDA tag : Len(tag) > 0 /\ Len(tag) <= TAG_MAX_LENGTH),
        MAX_TAGS)

\* validateNoteData: the sanitized fields, or the Error it throws
validateNoteData(noteData) ==
  IF Truthy(noteData, "title") /\ Len(trim(noteData.title)) > TITLE_MAX_LENGTH
    THEN [threw |-> TRUE, name |-> "Error"]
    ELSE [threw |-> FALSE,
          data |->
            Opt(Truthy(noteData, "title"), "title", trim(noteData.title))
            @@ Opt(Truthy(noteData, "content"), "content", trim(noteData.content))
            @@ Opt(Truthy(noteData, "category"), "category", trim(noteData.category))
            @@ Opt(Truthy(noteData, "type"), "type",
                   trim(toLowerCase(noteData.type)))
            @@ Opt("tags" \in DOMAIN noteData, "tags", SanitizeTags(noteData.tags))
            @@ Opt(Truthy(noteData, "priority"), "priority",
                   trim(toLowerCase(noteData.priority)))
            @@ Opt("isArchived" \in DOMAIN noteData, "isArchived",
                   noteData.isArchived)]

\* [...new Set(tags)]: the first occurrence of every tag, in order
RECURSIVE Unique(_)
Unique(tags) ==
  IF tags = << >> THEN << >>
  ELSE LET rest == Unique(SubSeq(tags, 1, Len(tags) - 1))
           tag == tags[Len(tags)]
       IN  IF \E i \in 1..Len(rest) : rest[i] = tag THEN rest
           ELSE Append(rest, tag)

\* the pre('save') hook: empty tags and duplicates are removed
preSave(doc) ==
  IF Len(doc.tags) > 0
    THEN [doc EXCEPT !.tags = Unique(SelectSeq(@, LAMBDA tag : trim(tag) # << >>))]
    ELSE doc

\* new Note(data): the schema setters (trim, lowercase) and the defaults
NewNote(data, t) ==
  Opt("title" \in DOMAIN data, "title", trim(data.title))
  @@ Opt("content" \in DOMAIN data, "content", trim(data.content))
  @@ Opt("category" \in DOMAIN data, "category", trim(data.category))
  @@ Opt("type" \in DOMAIN data, "type", trim(toLowerCase(data.type)))
  @@ [tags |-> IF "tags" \in DOMAIN data
                 THEN [i \in 1..Len(data.tags) |-> trim(toLowerCase(data.tags[i]))]
                 ELSE << >>,
      priority |-> IF "priority" \in DOMAIN data THEN toLowerCase(data.priority)
                   ELSE Medium,
      isArchived |-> IF "isArchived" \in DOMAIN data THEN data.isArchived ELSE FALSE,
      isFavorite |-> IF "isFavorite" \in DOMAIN data THEN data.isFavorite ELSE FALSE,
      createdAt |-> t, updatedAt |-> t]

\* the schema validators of one path of a document; TRUE when it passes
PathValid(doc, path) ==
  CASE path = "title" ->
         /\ "title" \in DOMAIN doc
         /\ Len(doc.title) >= 1
         /\ Len(doc.title) <= TITLE_MAX_LENGTH
    [] path = "content" -> "content" \in DOMAIN doc /\ Len(doc.content) >= 1
    [] path = "category" ->
         "category" \in DOMAIN doc /\ doc.category \in NOTE_CATEGORIES
    [] path = "type" -> "type" \in DOMAIN doc /\ doc.type \in NOTE_TYPES
    [] path = "priority" -> doc.priority \in PRIORITY_LEVELS
    [] path = "tags" ->
         /\ Len(doc.tags) <= MAX_TAGS
         /\ \A i \in 1..Len(doc.tags) : Len(doc.tags[i]) <= TAG_MAX_LENGTH
    [] OTHER -> TRUE

ValidatedPaths == {"title", "content", "category", "type", "priority", "tags"}

\* document validation in save(): every path of the document
DocumentValid(doc) == \A path \in ValidatedPaths : PathValid(doc, path)

(***************************************************************************)
(* Notes: the routes (routes/notes.js) and the model methods they call.    *)
(* Every operator gives the answer of the route and the collection it      *)
(* leaves.                                                                 *)
(***************************************************************************)
\* an _id whose document was deleted
Removed == [removed |-> TRUE]

\* the _id the collection gives the next document: never one used before
FreshNoteId(ns) ==
  CHOOSE n \in DOMAIN ns : ns[n] = NoNote /\ \A o \in DOMAIN ns : ns[o] = NoNote => n <= o

\* toJSON: the document with id in place of _id
toJSON(n, doc) == [id |-> ObjectId(n)] @@ doc

Answered(status, body, ns) == [status |-> status, body |-> body, notes |-> ns]

InvalidNoteId(ns) ==
  Answered(HttpStatus("BAD_REQUEST"),
           createErrorResponse("Invalid note ID format", HttpStatus("BAD_REQUEST")), ns)

NoteNotFound(ns) ==
  Answered(HttpStatus("NOT_FOUND"),
           createErrorResponse(NOTE_NOT_FOUND, HttpStatus("NOT_FOUND")), ns)

Failed(message, ns) ==
  Answered(HttpStatus("INTERNAL_SERVER_ERROR"),
           createErrorResponse(message, HttpStatus("INTERNAL_SERVER_ERROR")), ns)

ValidationFailed(ns) ==
  Answered(HttpStatus("BAD_REQUEST"),
           createErrorResponse(VALIDATION_ERROR, HttpStatus("BAD_REQUEST")), ns)

\* doc.save() of a loaded document: validation, then the pre('save') hook;
\* updatedAt moves when something changed
Save(old, doc, t) ==
  IF ~DocumentValid(doc) THEN [ok |-> FALSE]
  ELSE [ok |-> TRUE,
        doc |-> IF preSave(doc) = old THEN old
                ELSE [preSave(doc) EXCEPT !.updatedAt = t]]

\* GET /:id
getNote(ns, id) ==
  IF ~isValidObjectId(id) THEN InvalidNoteId(ns)
  ELSE IF FindNote(ns, id) = 0 THEN NoteNotFound(ns)
  ELSE Answered(HttpStatus("OK"),
                createApiResponse(toJSON(FindNote(ns, id), ns[FindNote(ns, id)]),
                                  "Note retrieved successfully"), ns)

\* POST /
createNote(ns, body, t) ==
  IF validateNoteData(body).threw THEN Failed("Failed to create note", ns)
  ELSE LET note == NewNote(validateNoteData(body).data, t)
           n == FreshNoteId(ns)
       IN  IF ~DocumentValid(note) THEN ValidationFailed(ns)
           ELSE Answered(HttpStatus("CREATED"),
                         createApiResponse(toJSON(n, preSave(note)),
                                           "Note created successfully"),
                         [ns EXCEPT ![n] = preSave(note)])

\* the update validators of findByIdAndUpdate: the validators of the paths
\* of the update; the validator of a tag reads this.tags, which a query
\* does not have, so it fails for every tag
UpdateValid(data) ==
  \A path \in DOMAIN data \cap ValidatedPaths :
    IF path = "tags" THEN data.tags = << >> ELSE PathValid(data, path)

\* PUT /:id: findByIdAndUpdate(id, validatedData, {new, runValidators})
updateNote(ns, id, body, t) ==
  IF ~isValidObjectId(id) THEN InvalidNoteId(ns)
  ELSE IF validateNoteData(body).threw THEN Failed("Failed to update note", ns)
  ELSE LET validatedData == validateNoteData(body).data
           n == FindNote(ns, id)
           updatedNote == [(validatedData @@ ns[n]) EXCEPT !.updatedAt = t]
       IN  IF ~UpdateValid(validatedData) THEN ValidationFailed(ns)
           ELSE IF n = 0 THEN NoteNotFound(ns)
           ELSE Answered(HttpStatus("OK"),
                         createApiResponse(toJSON(n, updatedNote),
                                           "Note updated successfully"),
                         [ns EXCEPT ![n] = updatedNote])

\* DELETE /:id
deleteNote(ns, id) ==
  IF ~isValidObjectId(id) THEN InvalidNoteId(ns)
  ELSE IF FindNote(ns, id) = 0 THEN NoteNotFound(ns)
  ELSE Answered(HttpStatus("OK"),
                createApiResponse(ns[FindNote(ns, id)], "Note deleted successfully"),
                [ns EXCEPT ![FindNote(ns, id)] = Removed])

\* PATCH /:id/archive (archived = TRUE) and PATCH /:id/unarchive
setArchived(ns, id, archived, t) ==
  IF ~isValidObjectId(id) THEN InvalidNoteId(ns)
  ELSE IF FindNote(ns, id) = 0 THEN NoteNotFound(ns)
  ELSE LET n == FindNote(ns, id)
           saved == Save(ns[n], [ns[n] EXCEPT !.isArchived = archived], t)
       IN  IF ~saved.ok
             THEN Failed(IF archived THEN "Failed to archive note"
                         ELSE "Failed to unarchive note", ns)
           ELSE Answered(HttpStatus("OK"),
                         createApiResponse(toJSON(n, saved.doc),
                                           IF archived THEN "Note archived successfully"
                                           ELSE "Note unarchived successfully"),
                         [ns EXCEPT ![n] = saved.doc])

\* PATCH /:id/favorite
toggleFavorite(ns, id, t) ==
  IF ~isValidObjectId(id) THEN InvalidNoteId(ns)
  ELSE IF FindNote(ns, id) = 0 THEN NoteNotFound(ns)
  ELSE LET n == FindNote(ns, id)
           saved == Save(ns[n], [ns[n] EXCEPT !.isFavorite = ~@], t)
       IN  IF ~saved.ok THEN Failed("Failed to toggle favorite", ns)
           ELSE Answered(HttpStatus("OK"),
                         createApiResponse(toJSON(n, saved.doc),
                                           IF saved.doc.isFavorite
                                             THEN "Note added to favorites"
                                             ELSE "Note removed from favorites"),
                         [ns EXCEPT ![n] = saved.doc])

CopySuffix == <<" ","(","C","o","p","y",")">>

\* note.duplicate(): toObject() without _id, createdAt and updatedAt, the
\* title with ' (Copy)'
duplicateData(doc) ==
  [title |-> doc.title \o CopySuffix, content |-> doc.content,
   category |-> doc.category, type |-> doc.type, tags |-> doc.tags,
   priority |-> doc.priority, isArchived |-> doc.isArchived,
   isFavorite |-> doc.isFavorite]

\* POST /:id/duplicate
duplicateNote(ns, id, t) ==
  IF ~isValidObjectId(id) THEN InvalidNoteId(ns)
  ELSE IF FindNote(ns, id) = 0 THEN NoteNotFound(ns)
  ELSE LET duplicate == NewNote(duplicateData(ns[FindNote(ns, id)]), t)
           n == FreshNoteId(ns)
       IN  IF ~DocumentValid(duplicate) THEN Failed("Failed to duplicate note", ns)
           ELSE Answered(HttpStatus("CREATED"),
                         createApiResponse(toJSON(n, preSave(duplicate)),
                                           "Note duplicated successfully"),
                         [ns EXCEPT ![n] = preSave(duplicate)])

\* the documents a list of well-formed ids matches
Matched(ns, noteIds) ==
  {n \in Stored(ns) : \E i \in 1..Len(noteIds) : toLowerCase(noteIds[i]) = ObjectId(n)}

BulkTagOps == {"add-tag", "remove-tag"}

\* Note.bulkArchive, bulkUnarchive, bulkAddTag, bulkRemoveTag: updateMany
\* with $set, $addToSet, $pull on one document
bulkUpdate(doc, op, tag, t) ==
  LET sanitizedTag == trim(toLowerCase(tag))
      updated ==
        CASE op = "archive" -> [doc EXCEPT !.isArchived = TRUE]
          [] op = "unarchive" -> [doc EXCEPT !.isArchived = FALSE]
          [] op = "add-tag" ->
               IF \E i \in 1..Len(doc.tags) : doc.tags[i] = sanitizedTag
                 THEN doc
                 ELSE [doc EXCEPT !.tags = Append(@, sanitizedTag)]
          [] op = "remove-tag" ->
               [doc EXCEPT !.tags = SelectSeq(@, LAMBDA x : x # sanitizedTag)]
  IN  IF updated = doc THEN doc ELSE [updated EXCEPT !.updatedAt = t]

\* a bulk route that drops the malformed ids and works on the others
bulk_SkipsMalformed(ns, op, body, t) ==
  IF "noteIds" \notin DOMAIN body \/ ~body.noteIds.array \/ Len(body.noteIds.items) = 0
    THEN Answered(HttpStatus("BAD_REQUEST"),
                  createErrorResponse("Note IDs array is required",
                                      HttpStatus("BAD_REQUEST")), ns)
  ELSE IF op \in BulkTagOps /\ ("tag" \notin DOMAIN body \/ Len(trim(body.tag)) = 0)
    THEN Answered(HttpStatus("BAD_REQUEST"),
                  createErrorResponse("Tag is required and must be a non-empty string",
                                      HttpStatus("BAD_REQUEST")), ns)
  ELSE LET hit == Matched(ns, SelectSeq(body.noteIds.items, LAMBDA id : isValidObjectId(id)))
           after == [n \in DOMAIN ns |->
                       IF n \notin hit THEN ns[n]
                       ELSE IF op = "delete" THEN Removed
                       ELSE bulkUpdate(ns[n], op,
                                       IF op \in BulkTagOps THEN body.tag ELSE << >>, t)]
       IN  Answered(HttpStatus("OK"),
                    createApiResponse(
                      [count |-> Cardinality({n \in hit : after[n] # ns[n]}),
                       requestedCount |-> Len(body.noteIds.items)],
                      op), after)

\* POST /bulk/archive, /bulk/unarchive, /bulk/add-tag, /bulk/remove-tag and
\* DELETE /bulk/delete
bulk(ns, op, body, t) ==
  IF "noteIds" \notin DOMAIN body \/ ~body.noteIds.array \/ Len(body.noteIds.items) = 0
    THEN Answered(HttpStatus("BAD_REQUEST"),
                  createErrorResponse("Note IDs array is required",
                                      HttpStatus("BAD_REQUEST")), ns)
  ELSE IF op \in BulkTagOps /\ ("tag" \notin DOMAIN body \/ Len(trim(body.tag)) = 0)
    THEN Answered(HttpStatus("BAD_REQUEST"),
                  createErrorResponse("Tag is required and must be a non-empty string",
                                      HttpStatus("BAD_REQUEST")), ns)
  ELSE IF \E i \in 1..Len(body.noteIds.items) : ~isValidObjectId(body.noteIds.items[i])
    THEN Answered(HttpStatus("BAD_REQUEST"),
                  createErrorResponse("Invalid note ID format(s) detected",
                                      HttpStatus("BAD_REQUEST")), ns)
  ELSE LET hit == Matched(ns, body.noteIds.items)
           after == [n \in DOMAIN ns |->
                       IF n \notin hit THEN ns[n]
                       ELSE IF op = "delete" THEN Removed
                       ELSE bulkUpdate(ns[n], op,
                                       IF op \in BulkTagOps THEN body.tag ELSE << >>, t)]
       IN  Answered(HttpStatus("OK"),
                    createApiResponse(
                      [count |-> Cardinality({n \in hit : after[n] # ns[n]}),
                       requestedCount |-> Len(body.noteIds.items)],
                      op), after)

\* note.addTag(tag): the document with the tag, or the Error it throws
addTag(doc, tag, t) ==
  IF tag = << >> THEN [ok |-> FALSE]
  ELSE IF Len(trim(toLowerCase(tag))) > TAG_MAX_LENGTH THEN [ok |-> FALSE]
  ELSE IF \E i \in 1..Len(doc.tags) : doc.tags[i] = trim(toLowerCase(tag))
    THEN Save(doc, doc, t)
  ELSE IF Len(doc.tags) >= MAX_TAGS THEN [ok |-> FALSE]
  ELSE Save(doc, [doc EXCEPT !.tags = Append(@, trim(toLowerCase(tag)))], t)

(***************************************************************************)
(* Notes: the requests of the model and the actions.                       *)
(***************************************************************************)
Filler(n) == [i \in 1..n |-> "x"]

TitleShort == <<"T">>
TitleOther == <<"U">>
TitlePadded == <<" ","T"," ">>
Title200 == Filler(TITLE_MAX_LENGTH)
Title201 == Filler(TITLE_MAX_LENGTH + 1)
Content == <<"c">>
TypeGeneral == <<"G","e","n","e","r","a","l">>
TypePrayer == <<"p","r","a","y","e","r">>
TagLong == Filler(TAG_MAX_LENGTH + 1)

\* ten distinct tags, and eleven entries of which the first ten hold a
\* duplicate while ten are distinct
TenTags == <<<<"a">>, <<"b">>, <<"c">>, <<"d">>, <<"e">>, <<"f">>, <<"g">>,
             <<"h">>, <<"i">>, <<"j">>>>
ElevenEntries == <<<<"a">>, <<"a">>>> \o Tail(TenTags)
MixedTags == <<<<" ","A"," ">>, << >>, <<"a">>, TagLong, <<"B">>, <<" ">>>>

Required(title) ==
  [title |-> title, content |-> Content, category |-> CatGeneral,
   type |-> TypeGeneral]

\* a body with every optional field, tags that need sanitizing among them
FullBody ==
  Required(TitlePadded) @@ [tags |-> MixedTags, priority |-> High,
                            isArchived |-> TRUE]

CreateBodies ==
  {Required(TitleShort), FullBody, Required(Title200), Required(Title201)}

UpdateBodies ==
  {[title |-> TitleOther, content |-> Content, category |-> CatPrayer,
    type |-> TypePrayer, priority |-> Low, tags |-> << >>],
   [title |-> TitleOther, content |-> Content, category |-> CatPrayer,
    type |-> TypePrayer],
   [content |-> Content],
   Required(Title200), Required(Title201)}

\* ids of requests: the ids of the collection, one of them in upper case,
\* a well-formed id no document has, and three malformed ones
UpperId(n) == [i \in 1..24 |-> IF i = 24 THEN DigitSeq[n + 1] ELSE "A"]
AbsentId == ObjectId(9)
ShortId == <<"1">>
NotHexId == [i \in 1..24 |-> "g"]
LongId == [i \in 1..25 |-> "a"]
MalformedIds == {ShortId, NotHexId, LongId}
RequestIds ==
  {ObjectId(n) : n \in NoteIds} \cup {UpperId(1), AbsentId} \cup MalformedIds

Array(items) == [array |-> TRUE, items |-> items]
NotAnArray == [array |-> FALSE, items |-> << >>]

BulkIdLists ==
  {Array(<< >>), Array(<<ObjectId(1)>>), Array(<<ObjectId(1), UpperId(2)>>),
   Array(<<ObjectId(1), NotHexId>>), Array(<<ShortId, ObjectId(2)>>),
   Array(<<AbsentId>>), NotAnArray}

BulkTags == {<<"k">>, <<" ","K"," ">>, <<" ">>}

BulkBodies(op) ==
  IF op \in BulkTagOps
    THEN {[noteIds |-> ids, tag |-> tag] : ids \in BulkIdLists, tag \in BulkTags}
         \cup {[noteIds |-> Array(<<ObjectId(1)>>)], [tag |-> <<"k">>]}
    ELSE {[noteIds |-> ids] : ids \in BulkIdLists} \cup {NoField}

BulkOps == {"archive", "unarchive", "delete"} \cup BulkTagOps

\* a request to a notes route was answered: last keeps the request, the
\* answer and the collection the request found
NoteAnswer(op, request, r) ==
  /\ notes' = r.notes
  /\ last' = [op |-> op, request |-> request, status |-> r.status,
              body |-> r.body, before |-> notes]
  /\ UNCHANGED <<now, attempts, users, held, admitted, streak, reg, db>>

HasFreshId == \E n \in NoteIds : notes[n] = NoNote

CreateNote(body) ==
  /\ HasFreshId
  /\ NoteAnswer("create", [body |-> body], createNote(notes, body, now))

GetNote(id) == NoteAnswer("get", [id |-> id], getNote(notes, id))

UpdateNote(id, body) ==
  NoteAnswer("update", [id |-> id, body |-> body],
             updateNote(notes, id, body, now))

DeleteNote(id) == NoteAnswer("delete", [id |-> id], deleteNote(notes, id))

ArchiveNote(id) ==
  NoteAnswer("archive", [id |-> id], setArchived(notes, id, TRUE, now))

UnarchiveNote(id) ==
  NoteAnswer("unarchive", [id |-> id], setArchived(notes, id, FALSE, now))

FavoriteNote(id) ==
  NoteAnswer("favorite", [id |-> id], toggleFavorite(notes, id, now))

DuplicateNote(id) ==
  /\ HasFreshId
  /\ NoteAnswer("duplicate", [id |-> id], duplicateNote(notes, id, now))

Bulk(op, body) ==
  NoteAnswer("bulk", [bulk |-> op, body |-> body], bulk(notes, op, body, now))

\* note.addTag(tag) on a loaded document
AddTag(n, tag) ==
  /\ n \in Stored(notes)
  /\ \E r \in {addTag(notes[n], tag, now)} :
       NoteAnswer("addTag", [n |-> n, tag |-> tag],
                  [status |-> IF r.ok THEN 200 ELSE 500,
                   body |-> [success |-> r.ok],
                   notes |-> IF r.ok THEN [notes EXCEPT ![n] = r.doc] ELSE notes])

\* duplicating: notes with a short and with the longest title, with and
\* without tags, marked favorite or not, and the clock moving on
DuplicateIds == {ObjectId(n) : n \in NoteIds} \cup {AbsentId, ShortId}

NextDuplicate ==
  \/ \E body \in {Required(TitleShort), Required(Title200), FullBody} :
       CreateNote(body)
  \/ \E id \in DuplicateIds : DuplicateNote(id)
  \/ \E id \in DuplicateIds : FavoriteNote(id)
  \/ AdvanceTo(1)

SpecDuplicate == Init /\ [][NextDuplicate]_vars

\* bulk requests on notes with and without the tag the requests carry
NextBulk ==
  \/ \E body \in {Required(TitleShort),
                  Required(TitleOther) @@ [tags |-> <<<<"k">>, <<"a">>>>]} :
       CreateNote(body)
  \/ \E op \in BulkOps : \E body \in BulkBodies(op) : Bulk(op, body)

SpecBulk == Init /\ [][NextBulk]_vars

\* creating and updating: notes with and without the optional fields, the
\* titles at the length limit, bodies that leave fields out
UpdateIds == {ObjectId(n) : n \in NoteIds} \cup {AbsentId, NotHexId}

NextUpdate ==
  \/ \E body \in CreateBodies : CreateNote(body)
  \/ \E id \in UpdateIds, body \in UpdateBodies : UpdateNote(id, body)

SpecUpdate == Init /\ [][NextUpdate]_vars

\* archiving and unarchiving notes whose tags were set on create and
\* extended by bulk add-tag
ArchiveIds == {ObjectId(n) : n \in NoteIds} \cup {AbsentId}

NextArchive ==
  \/ \E body \in {Required(TitleShort), Required(TitleOther) @@ [tags |-> TenTags]} :
       CreateNote(body)
  \/ \E n \in NoteIds :
       Bulk("add-tag", [noteIds |-> Array(<<ObjectId(n)>>), tag |-> <<"k">>])
  \/ \E id \in ArchiveIds : ArchiveNote(id)
  \/ \E id \in ArchiveIds : UnarchiveNote(id)

SpecArchive == Init /\ [][NextArchive]_vars

\* the operations that write tags and titles: create, update, duplicate,
\* addTag, bulk add-tag and bulk remove-tag
TagInputs == {<<" ","K"," ">>, TagLong}

NextTags ==
  \/ CreateNote(Required(TitleShort) @@ [tags |-> TenTags])
  \/ \E n \in NoteIds :
       UpdateNote(ObjectId(n), Required(Title200) @@ [tags |-> << >>])
  \/ \E n \in NoteIds : DuplicateNote(ObjectId(n))
  \/ \E n \in NoteIds : AddTag(n, <<" ","K"," ">>)
  \/ \E n \in NoteIds, tag \in TagInputs :
       Bulk("add-tag", [noteIds |-> Array(<<ObjectId(n)>>), tag |-> tag])
  \/ \E n \in NoteIds :
       Bulk("remove-tag", [noteIds |-> Array(<<ObjectId(n)>>), tag |-> <<"k">>])

SpecTags == Init /\ [][NextTags]_vars

\* creating notes with tag lists that need every step of the sanitizing,
\* and deleting them again
PaddedTags == <<<<" ","A"," ">>, << >>, <<"a">>, <<"B">>, <<" ">>>>
TagLists == {TenTags, ElevenEntries, PaddedTags, MixedTags}

NextSanitize ==
  \/ \E title \in {TitleShort, TitleOther}, tags \in TagLists :
       CreateNote(Required(title) @@ [tags |-> tags])
  \/ \E n \in NoteIds : DeleteNote(ObjectId(n))

SpecSanitize == Init /\ [][NextSanitize]_vars

\* the seven requests that address one note, with ids of stored notes, an
\* id in upper case, a well-formed id of no note and malformed ids
SingleIds == {ObjectId(n) : n \in NoteIds} \cup {AbsentId, NotHexId}

NextSingle ==
  \/ CreateNote(Required(TitleShort))
  \/ \E id \in RequestIds : GetNote(id)
  \/ \E id \in SingleIds, body \in {Required(TitleShort), Required(Title201)} :
       UpdateNote(id, body)
  \/ \E id \in SingleIds : DeleteNote(id)
  \/ \E id \in SingleIds : ArchiveNote(id)
  \/ \E id \in SingleIds : UnarchiveNote(id)
  \/ \E id \in SingleIds : FavoriteNote(id)
  \/ \E id \in SingleIds : DuplicateNote(id)

SpecSingle == Init /\ [][NextSingle]_vars

(***************************************************************************)
(* Pagination of GET /api/notes.                                           *)
(***************************************************************************)
DEFAULT_PAGE == 1
DEFAULT_LIMIT == 10
MAX_LIMIT == 100

\* a Number: NaN, or an integer the model holds exactly
NaN == [nan |-> TRUE, value |-> 0]
Number(value) == [nan |-> FALSE, value |-> value]

MathMax(a, b) == IF a >= b THEN a ELSE b
MathMin(a, b) == IF a <= b THEN a ELSE b

\* the longest run of decimal digits a string starts with
RECURSIVE LeadingDigits(_)
LeadingDigits(s) ==
  IF s = << >> \/ Head(s) \notin DigitChars THEN << >>
  ELSE <<Head(s)>> \o LeadingDigits(Tail(s))

DigitValue(c) == CHOOSE d \in 0..9 : DigitSeq[d + 1] = c

RECURSIVE DecimalValue(_)
DecimalValue(digits) ==
  IF digits = << >> THEN 0
  ELSE 10 * DecimalValue(SubSeq(digits, 1, Len(digits) - 1))
         + DigitValue(digits[Len(digits)])

\* parseInt(query[key], 10): undefined reads as 'undefined'; leading white
\* space is skipped, one sign is taken, the digits up to the first other
\* character are the value, and without a digit the result is NaN
parseInt(query, key) ==
  IF key \notin DOMAIN query THEN NaN
  ELSE LET s == TrimLeft(query[key])
           signed == s # << >> /\ Head(s) \in {"+", "-"}
           digits == LeadingDigits(IF signed THEN Tail(s) ELSE s)
       IN  IF digits = << >> THEN NaN
           ELSE IF signed /\ Head(s) = "-" THEN Number(0 - DecimalValue(digits))
           ELSE Number(DecimalValue(digits))

\* number || fallback: NaN and 0 are falsy
OrDefault(number, fallback) ==
  IF number.nan \/ number.value = 0 THEN fallback ELSE number.value

\* getPaginationParams without the lower bounds Math.max(1, ...)
getPaginationParams_NoLowerBound(query) ==
  LET page == OrDefault(parseInt(query, "page"), DEFAULT_PAGE)
      limit == MathMin(MAX_LIMIT, OrDefault(parseInt(query, "limit"), DEFAULT_LIMIT))
  IN  [page |-> page, limit |-> limit, skip |-> (page - 1) * limit]

getPaginationParams(query) ==
  LET page == MathMax(1, OrDefault(parseInt(query, "page"), DEFAULT_PAGE))
      limit == MathMin(MAX_LIMIT,
                       MathMax(1, OrDefault(parseInt(query, "limit"), DEFAULT_LIMIT)))
  IN  [page |-> page, limit |-> limit, skip |-> (page - 1) * limit]

\* values of a query parameter: empty, not a number, zero, negative,
\* padded, signed, followed by other characters, at and above MAX_LIMIT
QueryValues ==
  {Empty, <<"a","b","c">>, <<"-">>, <<"0">>, <<"-","3">>, <<"7">>,
   <<" ","+","5">>, <<"1","2","a","b">>, <<"1",".","9">>, <<"1","0","0">>,
   <<"1","0","1">>, <<"9","9","9","9">>}

Queries ==
  {Opt(hasPage, "page", page) @@ Opt(hasLimit, "limit", limit) :
     hasPage \in BOOLEAN, page \in QueryValues,
     hasLimit \in BOOLEAN, limit \in QueryValues}

\* a request GET /api/notes?page=..&limit=.. has arrived
InitPagination ==
  /\ now = 0
  /\ attempts = [ip \in IPs |-> << >>]
  /\ users = [id \in UserIds |-> NoUser]
  /\ held = {}
  /\ \E query \in Queries : last = [op |-> "query", request |-> query]
  /\ admitted = [ip \in IPs |-> << >>]
  /\ streak = [id \in UserIds |-> NoStreak]
  /\ reg = [r \in Slots |-> Idle]
  /\ notes = [n \in NoteIds |-> NoNote]
  /\ db = NotConnected

\* the route reads its pagination from the query
GetPaginationParams ==
  /\ last.op = "query"
  /\ last' = [op |-> "pagination", request |-> last.request,
              result |-> getPaginationParams(last.request)]
  /\ UNCHANGED <<now, attempts, users, held, admitted, streak, reg, notes, db>>

NextPagination == GetPaginationParams

SpecPagination == InitPagination /\ [][NextPagination]_vars

(***************************************************************************)
(* The list route GET /api/notes: filter and search.                       *)
(***************************************************************************)
\* str.split(sep) for a separator of one character
RECURSIVE Split(_, _)
Split(s, sep) ==
  IF \A i \in 1..Len(s) : s[i] # sep THEN <<s>>
  ELSE LET k == CHOOSE i \in 1..Len(s) :
                  s[i] = sep /\ \A j \in 1..(i - 1) : s[j] # sep
       IN  <<SubSeq(s, 1, k - 1)>> \o Split(SubSeq(s, k + 1, Len(s)), sep)

\* new RegExp(pattern, 'i') throws a SyntaxError: a '*' with nothing to
\* repeat, a ')' without its '(', a group or a class left open.  The scan
\* reads the pattern from position i with depth groups open; atom says
\* that a '*' may follow.  Patterns are made of letters, '.', '*', '(',
\* ')', '[' and ']'.
RECURSIVE RegExpThrows(_, _, _, _)
RegExpThrows(pattern, i, depth, atom) ==
  IF i > Len(pattern) THEN depth > 0
  ELSE CASE pattern[i] = "*" ->
              ~atom \/ RegExpThrows(pattern, i + 1, depth, FALSE)
         [] pattern[i] = "(" -> RegExpThrows(pattern, i + 1, depth + 1, FALSE)
         [] pattern[i] = ")" ->
              depth = 0 \/ RegExpThrows(pattern, i + 1, depth - 1, TRUE)
         [] pattern[i] = "[" ->
              LET closing == {j \in (i + 1)..Len(pattern) : pattern[j] = "]"}
              IN  \/ closing = {}
                  \/ RegExpThrows(pattern,
                                  (CHOOSE j \in closing : \A k \in closing : j <= k) + 1,
                                  depth, TRUE)
         [] OTHER -> RegExpThrows(pattern, i + 1, depth, TRUE)

SyntaxErrorThrown(pattern) == RegExpThrows(pattern, 1, 0, FALSE)

\* one character of a pattern against one of the text, flag i
CharMatches(c, d) == c = "." \/ ToLowerChar(c) = ToLowerChar(d)

\* the pattern matches at the start of the text: letters, '.', and '*'
\* after one character (patterns without groups and classes)
RECURSIVE MatchHere(_, _)
RECURSIVE MatchStar(_, _, _)
MatchHere(pattern, text) ==
  IF pattern = << >> THEN TRUE
  ELSE IF Len(pattern) >= 2 /\ pattern[2] = "*"
    THEN MatchStar(pattern[1], Tail(Tail(pattern)), text)
  ELSE /\ text # << >>
       /\ CharMatches(pattern[1], text[1])
       /\ MatchHere(Tail(pattern), Tail(text))

MatchStar(c, pattern, text) ==
  \/ MatchHere(pattern, text)
  \/ /\ text # << >>
     /\ CharMatches(c, text[1])
     /\ MatchStar(c, pattern, Tail(text))

\* { $regex: pattern, $options: 'i' } and RegExp.test: a match anywhere
RegExpTest(pattern, text) ==
  \E i \in 1..(Len(text) + 1) : MatchHere(pattern, SubSeq(text, i, Len(text)))

True == <<"t","r","u","e">>

\* query.tags.split(',').map(trim).filter(non-empty)
tagArray(query) ==
  SelectSeq([i \in 1..Len(Split(query.tags, ",")) |-> trim(Split(query.tags, ",")[i])],
            LAMBDA tag : Len(tag) > 0)

\* getFilterParams: the filter, or the SyntaxError of new RegExp
getFilterParams(query) ==
  IF Truthy(query, "search") /\ trim(query.search) # << >>
       /\ SyntaxErrorThrown(trim(query.search))
    THEN [threw |-> TRUE, name |-> "SyntaxError"]
    ELSE [threw |-> FALSE,
          filter |->
            [isArchived |-> "archived" \in DOMAIN query /\ query.archived = True]
            @@ Opt(Truthy(query, "category"), "category", query.category)
            @@ Opt(Truthy(query, "type"), "type", query.type)
            @@ Opt(Truthy(query, "priority"), "priority", query.priority)
            @@ Opt(Truthy(query, "tags") /\ Len(tagArray(query)) > 0,
                   "tags", tagArray(query))
            @@ Opt(Truthy(query, "search") /\ trim(query.search) # << >>,
                   "or", trim(query.search))]

\* Note.find(filter): the documents every predicate of the filter accepts
Accepts(filter, doc) ==
  /\ doc.isArchived = filter.isArchived
  /\ \A key \in {"category", "type", "priority"} \cap DOMAIN filter :
       doc[key] = filter[key]
  /\ "tags" \in DOMAIN filter =>
       \E i \in 1..Len(doc.tags), j \in 1..Len(filter.tags) :
         doc.tags[i] = filter.tags[j]
  /\ "or" \in DOMAIN filter =>
       \/ RegExpTest(filter.or, doc.title)
       \/ RegExpTest(filter.or, doc.content)
       \/ \E i \in 1..Len(doc.tags) : RegExpTest(filter.or, doc.tags[i])

Find(ns, filter) == {n \in Stored(ns) : Accepts(filter, ns[n])}

\* the pagination metadata of the answer, Math.ceil(total / limit) pages
pagination(params, total) ==
  LET totalPages == (total + params.limit - 1) \div params.limit
  IN  [currentPage |-> params.page, totalPages |-> totalPages,
       totalNotes |-> total, notesPerPage |-> params.limit,
       hasNextPage |-> params.page < totalPages,
       hasPrevPage |-> params.page > 1]

\* GET /: the page of the notes the filter finds (the queries of the model
\* ask for the first page, which holds them all), or 500
listNotes(ns, query) ==
  IF getFilterParams(query).threw THEN Failed("Failed to fetch notes", ns)
  ELSE LET filter == getFilterParams(query).filter
           params == getPaginationParams(query)
       IN  Answered(HttpStatus("OK"),
                    createApiResponse(
                      [notes |-> Find(ns, filter),
                       pagination |-> pagination(params, Cardinality(Find(ns, filter)))],
                      "Notes fetched successfully"),
                    ns)

\* the collection the list requests meet: two notes that differ in title,
\* category, tags and favorite mark
TitleAbc == <<"a","b","c">>
TitleADotC == <<"A",".","c">>

SeedNotes ==
  [n \in NoteIds |->
     IF n = 1
       THEN NewNote([title |-> TitleAbc, content |-> Content, category |-> CatGeneral,
                     type |-> TypeGeneral, tags |-> <<<<"a">>>>], 0)
     ELSE IF n = 2
       THEN NewNote([title |-> TitleADotC, content |-> Content, category |-> CatPrayer,
                     type |-> TypePrayer, tags |-> <<<<"b">>>>, priority |-> High,
                     isFavorite |-> TRUE], 0)
     ELSE NoNote]

False == <<"f","a","l","s","e">>

\* the query parameters of the model
ArchivedParams ==
  {NoField, [archived |-> True], [archived |-> False], [archived |-> Empty],
   [archived |-> <<"T","R","U","E">>]}
CategoryParams == {NoField, [category |-> Empty], [category |-> CatGeneral]}
TypeParams == {NoField, [type |-> TypePrayer]}
PriorityParams == {NoField, [priority |-> Empty], [priority |-> High]}
TagsParams ==
  {NoField, [tags |-> Empty], [tags |-> <<" ",","," ">>],
   [tags |-> <<"a",","," ","z",",">>]}
SearchParams ==
  {NoField, [search |-> <<" ">>], [search |-> <<"a">>], [search |-> <<"a",".","c">>],
   [search |-> <<"(">>], [search |-> <<"[">>], [search |-> <<"*">>]}
FavoriteParams == {NoField, [favorite |-> True], [favorite |-> False]}

ListQueries ==
  {a @@ c @@ t @@ p @@ g @@ s @@ f :
     a \in ArchivedParams, c \in CategoryParams, t \in TypeParams,
     p \in PriorityParams, g \in TagsParams, s \in SearchParams,
     f \in FavoriteParams}

\* a request GET /api/notes?... has arrived
InitList ==
  /\ now = 0
  /\ attempts = [ip \in IPs |-> << >>]
  /\ users = [id \in UserIds |-> NoUser]
  /\ held = {}
  /\ \E query \in ListQueries : last = [op |-> "query", request |-> query]
  /\ admitted = [ip \in IPs |-> << >>]
  /\ streak = [id \in UserIds |-> NoStreak]
  /\ reg = [r \in Slots |-> Idle]
  /\ notes = SeedNotes
  /\ db = NotConnected

\* the route answers; find is the filter Note.find was called with
ListNotes ==
  /\ last.op = "query"
  /\ \E r \in {listNotes(notes, last.request)} :
       last' = [op |-> "list", request |-> last.request, status |-> r.status,
                body |-> r.body,
                find |-> IF getFilterParams(last.request).threw
                           THEN [called |-> FALSE]
                           ELSE getFilterParams(last.request).filter]
  /\ UNCHANGED <<now, attempts, users, held, admitted, streak, reg, notes, db>>

NextList == ListNotes

SpecList == InitList /\ [][NextList]_vars

\* logins to one account with the right and a wrong password, an
\* administrator who deactivates it, and a clock that reaches the end of a
\* lock
LockInstants == {1, LOCK_TIME}

NextLock ==
  \/ \E ip \in IPs, password \in {PwAlice, PwBob} : Login(ip, MailAlice, password)
  \/ \E id \in UserIds : DeactivateUser(id)
  \/ \E t \in LockInstants : AdvanceTo(t)

SpecLock == InitSeeded /\ [][NextLock]_vars

(***************************************************************************)
(* sanitizeInput on arbitrary arguments.                                   *)
(***************************************************************************)
\* an argument of sanitizeInput: a string, or a value of another type
String(s) == [type |-> "string", value |-> s]
NotAString == [type |-> "number"]

\* sanitizeInput with its typeof test
sanitizeAny(input) ==
  IF input.type # "string" THEN Empty ELSE sanitizeInput(input.value)

\* the pieces the strings of the model are put together from
Pieces ==
  {<<"<">>, <<"'">>, <<"a">>, <<"j","a","v","a">>, <<"s","c","r","i","p","t",":">>,
   <<"J","a","v","a","S","c","r","i","p","t",":">>, <<"o","n">>, <<"x","=">>,
   <<"o","N","x","=">>}

RECURSIVE Joined(_)
Joined(n) ==
  IF n = 0 THEN {Empty}
  ELSE Joined(n - 1) \cup {s \o p : s \in Joined(n - 1), p \in Pieces}

SanitizeArguments == {String(s) : s \in Joined(MaxPieces)} \cup {NotAString}

InitInput ==
  /\ now = 0
  /\ attempts = [ip \in IPs |-> << >>]
  /\ users = [id \in UserIds |-> NoUser]
  /\ held = {}
  /\ \E input \in SanitizeArguments : last = [op |-> "input", request |-> input]
  /\ admitted = [ip \in IPs |-> << >>]
  /\ streak = [id \in UserIds |-> NoStreak]
  /\ reg = [r \in Slots |-> Idle]
  /\ notes = [n \in NoteIds |-> NoNote]
  /\ db = NotConnected

SanitizeInput ==
  /\ last.op = "input"
  /\ last' = [op |-> "sanitized", request |-> last.request,
              result |-> sanitizeAny(last.request)]
  /\ UNCHANGED <<now, attempts, users, held, admitted, streak, reg, notes, db>>

NextInput == SanitizeInput

SpecInput == InitInput /\ [][NextInput]_vars

(***************************************************************************)
(* The request timeout of server.js against the handler of GET /api/notes. *)
(***************************************************************************)
\* the body the timeout callback sends
RequestTimeout ==
  [error |-> "Request timeout", message |-> "The request took too long to process"]

\* res.status(status).json(body): writes the response, or throws
\* ERR_HTTP_HEADERS_SENT when the headers of a response went out before
json(sent, status, body) ==
  IF Len(sent) > 0 THEN [threw |-> TRUE, sent |-> sent]
  ELSE [threw |-> FALSE, sent |-> Append(sent, [status |-> status, body |-> body])]

\* the catch block of GET /: its own res.json may throw, which rejects the
\* promise of the async handler
listCatch(sent, ns) ==
  LET answer == Failed("Failed to fetch notes", ns)
      wrote == json(sent, answer.status, answer.body)
  IN  [sent |-> wrote.sent, rejected |-> wrote.threw]

\* GET / from the point where Note.find and countDocuments settled: the rest
\* of the try block, then the catch block
listSettled(sent, ns, query, failed) ==
  IF failed THEN listCatch(sent, ns)
  ELSE LET answer == listNotes(ns, query)
           wrote == json(sent, answer.status, answer.body)
       IN  IF wrote.threw THEN listCatch(sent, ns)
           ELSE [sent |-> wrote.sent, rejected |-> FALSE]

\* the queries of the requests that race with the timeout
TimedQueries == {NoField, [search |-> <<"a">>], [search |-> <<"(">>]}

\* the process is up, with the seeded collection and no request in flight
InitTimeout ==
  /\ now = 0
  /\ attempts = [ip \in IPs |-> << >>]
  /\ users = [id \in UserIds |-> NoUser]
  /\ held = {}
  /\ last = NoRequest
  /\ admitted = [ip \in IPs |-> << >>]
  /\ streak = [id \in UserIds |-> NoStreak]
  /\ reg = [r \in Slots |-> Idle]
  /\ notes = SeedNotes
  /\ db = Connected

\* a request arrives: the middleware arms the timer and calls the handler,
\* which runs to its await (or to its catch when getFilterParams throws)
Receive(r, query) ==
  /\ last.op # "exit"
  /\ reg[r].pc = "idle"
  /\ IF getFilterParams(query).threw
       THEN \E c \in {listCatch(<< >>, notes)} :
              reg' = [reg EXCEPT ![r] = [pc |-> "done", query |-> query,
                                         timer |-> "armed", sent |-> c.sent]]
       ELSE reg' = [reg EXCEPT ![r] = [pc |-> "awaiting", query |-> query,
                                       timer |-> "armed", sent |-> << >>]]
  /\ UNCHANGED <<now, attempts, users, held, last, admitted, streak, notes, db>>

\* 30 seconds passed on the socket of a response that is not finished: the
\* callback of res.setTimeout runs
TimeoutFires(r) ==
  /\ last.op # "exit"
  /\ reg[r].pc = "awaiting"
  /\ reg[r].timer = "armed"
  /\ \E w \in {json(reg[r].sent, HttpStatus("SERVICE_UNAVAILABLE"), RequestTimeout)} :
       reg' = [reg EXCEPT ![r].timer = "fired", ![r].sent = w.sent]
  /\ UNCHANGED <<now, attempts, users, held, last, admitted, streak, notes, db>>

\* the database calls of the handler settle and the handler runs to its end
Settle(r, failed) ==
  /\ last.op # "exit"
  /\ reg[r].pc = "awaiting"
  /\ \E s \in {listSettled(reg[r].sent, notes, reg[r].query, failed)} :
       reg' = [reg EXCEPT ![r].pc = IF s.rejected THEN "rejected" ELSE "done",
                          ![r].sent = s.sent]
  /\ UNCHANGED <<now, attempts, users, held, last, admitted, streak, notes, db>>

\* process.on('unhandledRejection'): gracefulShutdown starts and awaits
\* closeDatabase
UnhandledRejection(r) ==
  /\ last.op # "exit"
  /\ reg[r].pc = "rejected"
  /\ reg' = [reg EXCEPT ![r].pc = "reported"]
  /\ last' = [op |-> "shutdown", signal |-> "UNHANDLED_REJECTION"]
  /\ UNCHANGED <<now, attempts, users, held, admitted, streak, notes, db>>

\* gracefulShutdown after closeDatabase, which catches its own errors,
\* settled: process.exit(0)
ProcessExit ==
  /\ last.op = "shutdown"
  /\ last' = [op |-> "exit", signal |-> last.signal, code |-> 0]
  /\ db' = IF db.cachedConnection # "null"
             THEN [db EXCEPT !.cachedConnection = "null", !.readyState = 0]
             ELSE db
  /\ UNCHANGED <<now, attempts, users, held, admitted, streak, reg, notes>>

NextTimeout ==
  \/ \E r \in Slots, query \in TimedQueries : Receive(r, query)
  \/ \E r \in Slots : TimeoutFires(r)
  \/ \E r \in Slots, failed \in BOOLEAN : Settle(r, failed)
  \/ \E r \in Slots : UnhandledRejection(r)
  \/ ProcessExit

SpecTimeout == InitTimeout /\ [][NextTimeout]_vars

(***************************************************************************)
(* PATCH /api/notes/:id/favorite, step by step: the handler loads the      *)
(* document, and after its await flips the copy it holds and saves it.     *)
(***************************************************************************)
FavoriteIds == {ObjectId(n) : n \in NoteIds} \cup {AbsentId, ShortId}

InitFavorite ==
  /\ now = 0
  /\ attempts = [ip \in IPs |-> << >>]
  /\ users = [id \in UserIds |-> NoUser]
  /\ held = {}
  /\ last = NoRequest
  /\ admitted = [ip \in IPs |-> << >>]
  /\ streak = [id \in UserIds |-> NoStreak]
  /\ reg = [r \in Slots |-> Idle]
  /\ notes = SeedNotes
  /\ db = Connected

\* the handler up to the end of await Note.findById(id): note is the
\* document as the collection holds it at this moment
FindFavorite(r, id) ==
  /\ reg[r].pc = "idle"
  /\ IF ~isValidObjectId(id) \/ FindNote(notes, id) = 0
       THEN \E a \in {toggleFavorite(notes, id, now)} :
              reg' = [reg EXCEPT ![r] = [pc |-> "done", id |-> id, n |-> 0,
                                         status |-> a.status, body |-> a.body]]
       ELSE reg' = [reg EXCEPT ![r] = [pc |-> "toggleFavorite", id |-> id,
                                       n |-> FindNote(notes, id),
                                       note |-> notes[FindNote(notes, id)]]]
  /\ UNCHANGED <<now, attempts, users, held, last, admitted, streak, notes, db>>

\* note.toggleFavorite() and the response: this.isFavorite = !this.isFavorite
\* on the loaded copy, then save(), which writes the changed paths of the
\* copy to the stored document
ToggleFavorite(r) ==
  /\ reg[r].pc = "toggleFavorite"
  /\ LET n == reg[r].n
         saved == Save(reg[r].note, [reg[r].note EXCEPT !.isFavorite = ~@], now)
     IN  IF ~saved.ok \/ "title" \notin DOMAIN notes[n]
           THEN /\ \E a \in {Failed("Failed to toggle favorite", notes)} :
                     reg' = [reg EXCEPT ![r] = [pc |-> "done", id |-> reg[r].id,
                                                n |-> n, status |-> a.status,
                                                body |-> a.body]]
                /\ UNCHANGED notes
           ELSE /\ notes' = [notes EXCEPT ![n].isFavorite = saved.doc.isFavorite,
                                          ![n].updatedAt = saved.doc.updatedAt]
                /\ reg' = [reg EXCEPT ![r] =
                     [pc |-> "done", id |-> reg[r].id, n |-> n,
                      status |-> HttpStatus("OK"),
                      body |-> createApiResponse(
                                 toJSON(n, saved.doc),
                                 IF saved.doc.isFavorite
                                   THEN "Note added to favorites"
                                   ELSE "Note removed from favorites")]]
  /\ UNCHANGED <<now, attempts, users, held, last, admitted, streak, db>>

NextFavorite ==
  \/ \E r \in Slots, id \in FavoriteIds : FindFavorite(r, id)
  \/ \E r \in Slots : ToggleFavorite(r)
  \/ AdvanceTo(1)

SpecFavorite == InitFavorite /\ [][NextFavorite]_vars

(***************************************************************************)
(* connectToDatabase and connectWithRetry (config/database.js).            *)
(***************************************************************************)
\* constants/api.js DATABASE_CONFIG.RETRY_ATTEMPTS
RETRY_ATTEMPTS == 3

\* constants/api.js API_MESSAGES.DATABASE_CONNECTION_FAILED
DATABASE_CONNECTION_FAILED == "Failed to connect to database"

\* if (cachedConnection && cachedConnection.readyState === 1)
cachedReady(d) == d.cachedConnection # "null" /\ d.readyState = 1

\* the catch block of connectWithRetry retries while retryCount is below
\* RETRY_ATTEMPTS, keeping one attempt too many
connectWithRetry_OneMore(retryCount) ==
  IF retryCount <= RETRY_ATTEMPTS THEN "retry" ELSE "throw"

\* the catch block of connectWithRetry: retry, or rethrow the error
connectWithRetry(retryCount) ==
  IF retryCount < RETRY_ATTEMPTS THEN "retry" ELSE "throw"

\* the error connectToDatabase throws from its catch block
ConnectionFailed(message) ==
  [pc |-> "threw", error |-> DATABASE_CONNECTION_FAILED, message |-> message]

\* the process starts with or without MONGODB_URI in its environment
InitConnect ==
  /\ now = 0
  /\ attempts = [ip \in IPs |-> << >>]
  /\ users = [id \in UserIds |-> NoUser]
  /\ held = {}
  /\ last = NoRequest
  /\ admitted = [ip \in IPs |-> << >>]
  /\ streak = [id \in UserIds |-> NoStreak]
  /\ reg = [r \in Slots |-> Idle]
  /\ notes = [n \in NoteIds |-> NoNote]
  /\ \E uri \in BOOLEAN : db = [NotConnected EXCEPT !.MONGODB_URI = uri]

\* a caller calls connectToDatabase, which runs to its first await or to
\* its end; connects counts the calls of mongoose.connect
ConnectToDatabase(r) ==
  /\ reg[r].pc = "idle"
  /\ reg' = [reg EXCEPT ![r] =
       IF cachedReady(db)
         THEN [pc |-> "returned", connects |-> 0, connection |-> db.cachedConnection]
       ELSE IF ~db.MONGODB_URI
         THEN ConnectionFailed("MONGODB_URI environment variable is not defined")
              @@ [connects |-> 0]
       ELSE [pc |-> "connect", retryCount |-> 0, connects |-> 0]]
  /\ UNCHANGED <<now, attempts, users, held, last, admitted, streak, notes, db>>

\* await mongoose.connect(...) settles: the connection is returned and
\* cached, or the catch block of connectWithRetry runs
MongooseConnect(r, resolved) ==
  /\ reg[r].pc = "connect"
  /\ IF resolved
       THEN /\ db' = [db EXCEPT !.cachedConnection = "connection", !.readyState = 1]
            /\ reg' = [reg EXCEPT ![r] = [pc |-> "returned",
                                          connects |-> reg[r].connects + 1,
                                          connection |-> "connection"]]
       ELSE /\ db' = db
            /\ reg' = [reg EXCEPT ![r] =
                 IF connectWithRetry(reg[r].retryCount) = "retry"
                   THEN [pc |-> "setTimeout", retryCount |-> reg[r].retryCount,
                         connects |-> reg[r].connects + 1]
                   ELSE ConnectionFailed("connect failed")
                        @@ [connects |-> reg[r].connects + 1]]
  /\ UNCHANGED <<now, attempts, users, held, last, admitted, streak, notes>>

\* the delay before a retry is over: connectWithRetry(retryCount + 1)
RetryDelayOver(r) ==
  /\ reg[r].pc = "setTimeout"
  /\ reg' = [reg EXCEPT ![r] = [pc |-> "connect",
                                retryCount |-> reg[r].retryCount + 1,
                                connects |-> reg[r].connects]]
  /\ UNCHANGED <<now, attempts, users, held, last, admitted, streak, notes, db>>

\* the caller has its answer and may call again
CallerContinues(r) ==
  /\ reg[r].pc \in {"returned", "threw"}
  /\ reg' = [reg EXCEPT ![r] = Idle]
  /\ UNCHANGED <<now, attempts, users, held, last, admitted, streak, notes, db>>

\* the connection to the server is lost
ConnectionLost ==
  /\ db.readyState = 1
  /\ db' = [db EXCEPT !.readyState = 0]
  /\ UNCHANGED <<now, attempts, users, held, last, admitted, streak, reg, notes>>

NextConnect ==
  \/ \E r \in Slots : ConnectToDatabase(r)
  \/ \E r \in Slots, resolved \in BOOLEAN : MongooseConnect(r, resolved)
  \/ \E r \in Slots : RetryDelayOver(r)
  \/ \E r \in Slots : CallerContinues(r)
  \/ ConnectionLost

\* mongoose.connect settles (serverSelectionTimeoutMS) and timers fire
ConnectFairness ==
  \A r \in Slots :
    /\ WF_vars(\E resolved \in BOOLEAN : MongooseConnect(r, resolved))
    /\ WF_vars(RetryDelayOver(r))

SpecConnect == InitConnect /\ [][NextConnect]_vars /\ ConnectFairness

(***************************************************************************)
(* Properties of the login flow.                                           *)
(***************************************************************************)
\* the login handled last was well-formed and named an existing, active
\* account that had just had five consecutive wrong-password failures, the
\* first of them less than a rate window ago: it is the sixth attempt
SixthAttempt ==
  /\ last.op = "login"
  /\ last.wellFormed
  /\ last.target # 0
  /\ last.active
  /\ last.fails = 5

RespondedLocked == last.status = 401 /\ last.body = AccountLocked

\* C1 as stated: after five consecutive failed logins for an account within
\* the rate window, from one client IP or from several, the sixth attempt is
\* answered Account Locked and with nothing else.
C1_SixthAttemptAlwaysLocked == SixthAttempt => RespondedLocked

\* C1 amended: the sixth attempt is answered Account Locked when its client
\* IP has fewer than five admitted attempts inside the window; otherwise the
\* rate limiter rejects it before the account is looked up.  Either way the
\* answer is neither Authentication Failed nor a success and the account is
\* left as it was.
C1_SixthAttemptLockedOrLimited ==
  SixthAttempt =>
    /\ last.room => RespondedLocked
    /\ ~last.room => last.limiter = "rejected" /\ ~last.lookedUp
    /\ last.body # AuthenticationFailed
    /\ last.status # 200
    /\ last.untouched

C1_Witness ==
  /\ SixthAttempt
  /\ last.correct
  /\ last.room
  /\ RespondedLocked

\* C2: checkRateLimit is a sliding window per identifier: no IP ever has more
\* than five admitted attempts inside the last 15 minutes, and an attempt is
\* rejected exactly when five admitted attempts of its IP lie inside the
\* window (so an IP is admitted again once the oldest of them is 15 minutes
\* old, and rejected attempts do not count).
C2_SlidingWindow ==
  /\ \A ip \in IPs : Len(admitted[ip]) <= maxAttempts
  /\ (last.op = "login" /\ last.limiter # "skipped") =>
       (last.limiter = "rejected" <=> ~last.room)

\* an IP is rejected while five admitted attempts of different ages fill its
\* window, and another IP is admitted again after its window emptied
C2_Witness ==
  /\ last.op = "login"
  /\ last.limiter = "rejected"
  /\ \E ip \in IPs : Len(admitted[ip]) = maxAttempts /\ admitted[ip][1] < now
  /\ \E ip \in IPs : Len(attempts[ip]) = maxAttempts /\ admitted[ip] = << >>

C4_UnknownAndWrongPasswordAlike ==
  /\ (last.op = "login" /\ last.lookedUp /\ last.target = 0) =>
       /\ last.status = 401
       /\ last.body = AuthenticationFailed
       /\ last.untouched
  /\ (last.op = "login" /\ last.lookedUp /\ last.target # 0
        /\ last.active /\ ~last.locked /\ ~last.correct) =>
       /\ last.status = 401
       /\ last.body = AuthenticationFailed
       /\ users[last.target].loginAttempts = last.counter + 1
       /\ last.frame

C4_Witness ==
  /\ last.op = "login"
  /\ last.lookedUp
  /\ last.target # 0
  /\ last.active /\ ~last.locked /\ ~last.correct
  /\ last.counter = 1
  /\ last.body = AuthenticationFailed

\* C5: a login that the rate limiter rejects is answered 429 with the body
\* Too Many Attempts / retryAfter '15 minutes', and the account is neither
\* looked up nor is a password compared.
C5_RateLimitedAnswers429 ==
  (last.op = "login" /\ last.limiter = "rejected") =>
    /\ last.status = 429
    /\ last.body = TooManyAttempts
    /\ ~last.lookedUp
    /\ ~last.compared

(***************************************************************************)
(* Properties of the token flow.                                           *)
(***************************************************************************)
\* the header has the form 'Bearer <token>' with a non-empty token
HasBearerToken(h) ==
  /\ h # NoHeader
  /\ h.scheme = "Bearer "
  /\ h.credentials # EmptyToken

\* claim shapes of generateTokenPair
IsAccessToken(tok) ==
  "payload" \in DOMAIN tok /\ DOMAIN tok.payload = {"userId", "username", "email"}
IsRefreshToken(tok) ==
  "payload" \in DOMAIN tok /\ DOMAIN tok.payload = {"userId"}

\* C6: authenticateToken answers 401 'No token provided' without calling next
\* when the header is missing, is not 'Bearer <token>' or carries an empty
\* token; answers 401 with the verification error without calling next when
\* the token fails verification; and only for a token that verifies attaches
\* the decoded claims to req.user and calls next, once.
C6_AuthenticateToken ==
  last.op \in {"me", "logout"} =>
    /\ last.next \in {0, 1}
    /\ ~HasBearerToken(last.header) =>
         /\ last.next = 0
         /\ last.status = 401
         /\ last.body = AccessDenied("No token provided")
    /\ (HasBearerToken(last.header)
          /\ ~verifyToken(last.header.credentials, now).ok) =>
         /\ last.next = 0
         /\ last.status = 401
         /\ last.body = AccessDenied("Invalid or expired token")
    /\ (HasBearerToken(last.header)
          /\ verifyToken(last.header.credentials, now).ok) =>
         /\ last.next = 1
         /\ last.reqUser = last.header.credentials.payload
    /\ last.next = 1 =>
         /\ HasBearerToken(last.header)
         /\ verifyToken(last.header.credentials, now).ok

\* a token the server issued is presented after its expiry and is refused
C6_Witness ==
  /\ last.op = "me"
  /\ HasBearerToken(last.header)
  /\ last.header.credentials \in held
  /\ IsAccessToken(last.header.credentials)
  /\ now >= last.header.credentials.exp
  /\ last.next = 0
  /\ last.body = AccessDenied("Invalid or expired token")

\* C7: refresh issues a token pair only when the presented token verifies
\* and the user it names exists and is active at that moment; a missing
\* token gives 400, an unverifiable one 401 'Invalid or expired refresh
\* token', a missing or inactive user 401 'User not found or inactive', and
\* none of these issues tokens.
C7_Refresh ==
  last.op = "refresh" =>
    LET verified == last.token # EmptyToken /\ verifyToken(last.token, now).ok
        user == IF verified
                  THEN findById(users, last.token.payload.userId)
                  ELSE NoUser
        live == user # NoUser /\ user.isActive
    IN  /\ last.token = EmptyToken =>
             last.status = 400
        /\ (last.token # EmptyToken /\ ~verified) =>
             /\ last.status = 401
             /\ last.body = InvalidToken("Invalid or expired refresh token")
        /\ (verified /\ ~live) =>
             /\ last.status = 401
             /\ last.body = InvalidToken("User not found or inactive")
        /\ ("tokens" \in DOMAIN last.body) <=> (verified /\ live)
        /\ (verified /\ live) => last.status = 200

\* a refresh token issued while the account was active is refused once the
\* account has been deactivated
C7_Witness ==
  /\ last.op = "refresh"
  /\ last.token \in held
  /\ IsRefreshToken(last.token)
  /\ verifyToken(last.token, now).ok
  /\ findById(users, last.token.payload.userId) # NoUser
  /\ ~findById(users, last.token.payload.userId).isActive
  /\ last.body = InvalidToken("User not found or inactive")

\* C8: access and refresh tokens are not interchangeable: a refresh token
\* presented as the Bearer credential of a protected route is rejected, and
\* an access token presented to /refresh is rejected.
C8_TokensNotInterchangeable ==
  /\ (last.op \in {"me", "logout"}
        /\ HasBearerToken(last.header)
        /\ IsRefreshToken(last.header.credentials)) =>
       /\ last.next = 0
       /\ last.status = 401
  /\ (last.op = "refresh" /\ IsAccessToken(last.token)) =>
       /\ last.status # 200
       /\ "tokens" \notin DOMAIN last.body

(***************************************************************************)
(* Properties of the register flow.                                        *)
(***************************************************************************)
Rejected(r) == reg[r].pc = "done" /\ reg[r].status # HttpStatus("CREATED")
Accepted(r) == reg[r].pc = "done" /\ reg[r].status = HttpStatus("CREATED")
Saved(r) == reg[r].pc = "updateLastLogin"

\* the request was stopped by the password-strength gate: every field
\* present, a well-formed e-mail, a password failing validatePassword
WeakOnly(r) ==
  /\ reg[r].pc = "done"
  /\ reg[r].flags.weak
  /\ ~reg[r].flags.missing
  /\ ~reg[r].flags.badEmail

\* C9: a rejected registration (missing field, invalid e-mail, weak password,
\* existing e-mail, existing username) creates no user record and issues no
\* tokens: every record of the collection was made by a request that is
\* answered 201 or about to be, a rejected request names no record and its
\* response carries no tokens; a request stopped for its weak password is
\* answered 400 with at least one unmet requirement listed.
C9_RejectedCreatesNothing ==
  /\ Present(users) = {reg[r].id : r \in {q \in Slots : Saved(q)}}
                        \cup {reg[r].created : r \in {q \in Slots : Accepted(q)}}
  /\ \A r \in Slots :
       Rejected(r) =>
         /\ reg[r].created = 0
         /\ "tokens" \notin DOMAIN reg[r].body
         /\ "user" \notin DOMAIN reg[r].body
  /\ \A r \in Slots :
       WeakOnly(r) =>
         /\ reg[r].status = 400
         /\ "requirements" \in DOMAIN reg[r].body
         /\ Len(reg[r].body.requirements) >= 1

\* a request with the password "weak" was answered 400 with its unmet
\* requirements while the collection stayed empty
C9_Witness ==
  \E r \in Slots :
    /\ WeakOnly(r)
    /\ reg[r].status = 400
    /\ Len(reg[r].body.requirements) >= 1
    /\ Present(users) = {}

\* two requests that ask for the same e-mail or the same username
Colliding(r, q) ==
  /\ r # q
  /\ reg[r].pc = "done"
  /\ reg[q].pc = "done"
  /\ reg[r].data # NoData
  /\ reg[q].data # NoData
  /\ \/ reg[r].data.email = reg[q].data.email
     \/ reg[r].data.username = reg[q].data.username

\* C10: e-mail and username stay unique in the collection under every
\* interleaving of register requests; of two requests for the same e-mail or
\* the same username at most one is answered 201, a well-formed request is
\* answered 201 or 409, and no register request is answered 500.
C10_UniqueUnderConcurrency ==
  /\ \A i, j \in Present(users) :
       i # j => /\ users[i].email # users[j].email
                /\ users[i].username # users[j].username
  /\ \A r, q \in Slots :
       Colliding(r, q) => ~(Accepted(r) /\ Accepted(q))
  /\ \A r \in Slots :
       reg[r].pc = "done" =>
         /\ reg[r].status # 500
         /\ reg[r].flags.valid => reg[r].status \in {201, 409}
  /\ \A r, q \in Slots :
       Colliding(r, q) /\ reg[r].flags.valid /\ reg[q].flags.valid
         => reg[r].status = 409 \/ reg[q].status = 409

\* two requests for one e-mail both passed the existence checks; one was
\* saved and answered 201, the other hit the unique index and was answered
\* 409 Duplicate Entry
C10_Witness ==
  \E r, q \in Slots :
    /\ Colliding(r, q)
    /\ reg[r].data.email = reg[q].data.email
    /\ Accepted(r)
    /\ reg[q].status = 409
    /\ reg[q].body.error = "Duplicate Entry"
    /\ Cardinality(Present(users)) = 1

(***************************************************************************)
(* Properties of the change-password flow.                                 *)
(***************************************************************************)
\* the request passed authenticateToken and reached the handler
ReachedChangePassword == last.op = "change-password" /\ last.next = 1

\* the account the request names existed, the supplied current password
\* matches its stored hash and the new password passes the strength rules
CurrentMatches ==
  /\ last.target \in Present(last.before)
  /\ comparePassword(last.before[last.target], last.currentPassword)

NewIsStrong == validatePassword(last.newPassword).isValid

\* C11: changePassword replaces the stored password if and only if the
\* supplied current password matches the stored hash and the new password
\* passes the strength rules; a missing field gives 400, an absent user 404,
\* a wrong current password 401 (also when the new password is weak: the
\* current password is checked first), a weak new password 400, and in all
\* of these the collection is left as it was.
C11_ChangePassword ==
  ReachedChangePassword =>
    IF CurrentMatches /\ NewIsStrong
      THEN /\ last.status = 200
           /\ users = [last.before EXCEPT
                         ![last.target].password = Hash(last.newPassword)]
    ELSE /\ users = last.before
         /\ IF last.currentPassword = Empty \/ last.newPassword = Empty
              THEN last.status = 400 /\ "requirements" \notin DOMAIN last.body
            ELSE IF last.target \notin Present(last.before)
              THEN last.status = 404
            ELSE IF ~CurrentMatches
              THEN last.status = 401
            ELSE last.status = 400 /\ "requirements" \in DOMAIN last.body

\* a request with a wrong current password and a weak new password was
\* answered 401, and the stored password is one that an earlier request put
\* in place
C11_Witness ==
  /\ ReachedChangePassword
  /\ last.target \in Present(last.before)
  /\ ~CurrentMatches
  /\ ~NewIsStrong
  /\ last.newPassword # Empty
  /\ last.currentPassword # Empty
  /\ last.status = 401
  /\ users[last.target].password = Hash(PwBob)

(***************************************************************************)
(* Properties of the notes routes.                                         *)
(***************************************************************************)
\* the request named a document of the collection it found
OnExisting(op) ==
  /\ last.op = op
  /\ isValidObjectId(last.request.id)
  /\ FindNote(last.before, last.request.id) # 0

Source == FindNote(last.before, last.request.id)

\* the fields of a note that a copy takes over unchanged
CopiedFields ==
  {"content", "category", "type", "tags", "priority", "isArchived", "isFavorite"}

\* the documents a request added to the collection
Added == Stored(notes) \ Stored(last.before)

\* C12: duplicate on any existing note is answered 201 and stores exactly
\* one more note, under an id the source does not have, with timestamps of
\* the moment of the request, the source's title followed by ' (Copy)' and
\* every other field equal to the source's; the source is left as it was.
C12_DuplicateSucceeds ==
  OnExisting("duplicate") =>
    /\ last.status = 201
    /\ Cardinality(Added) = 1
    /\ \A n \in Added :
         /\ n # Source
         /\ notes[n].title = last.before[Source].title \o CopySuffix
         /\ \A f \in CopiedFields : notes[n][f] = last.before[Source][f]
         /\ notes[n].createdAt = now
         /\ notes[n].updatedAt = now
    /\ \A n \in Stored(last.before) : notes[n] = last.before[n]

\* the id list of a bulk request is missing, not an array, empty, or holds
\* a malformed id
BadIdList(body) ==
  \/ "noteIds" \notin DOMAIN body
  \/ ~body.noteIds.array
  \/ Len(body.noteIds.items) = 0
  \/ \E i \in 1..Len(body.noteIds.items) : ~isValidObjectId(body.noteIds.items[i])

\* C13: a bulk archive, unarchive, delete, add-tag or remove-tag request
\* whose id list is missing, not an array, empty or holds a malformed id is
\* answered 400 and leaves every document as it was, also when the other
\* ids of the list are well formed.
C13_BulkValidatesFirst ==
  (last.op = "bulk" /\ BadIdList(last.request.body)) =>
    /\ last.status = 400
    /\ notes = last.before

\* a bulk request naming a stored note, which it would have changed, next
\* to a malformed id was answered 400
C13_Witness ==
  /\ last.op = "bulk"
  /\ "noteIds" \in DOMAIN last.request.body
  /\ last.request.body.noteIds.array
  /\ \E i, j \in 1..Len(last.request.body.noteIds.items) :
       /\ ~isValidObjectId(last.request.body.noteIds.items[i])
       /\ isValidObjectId(last.request.body.noteIds.items[j])
       /\ FindNote(last.before, last.request.body.noteIds.items[j]) # 0
  /\ last.request.bulk = "delete"
  /\ last.status = 400
  /\ notes = last.before

RequiredFields == {"title", "content", "category", "type"}

\* the optional fields of validateNoteData and the schema defaults
Defaults == [tags |-> << >>, priority |-> Medium, isArchived |-> FALSE]

\* what the request asks a field to be: its sanitized value
Requested == validateNoteData(last.request.body).data

\* C14: update has full-replace semantics: a request that leaves out a
\* required field is answered 400 and not applied; after a successful PUT
\* every validated field of the note is the one of the request, and an
\* optional field the request leaves out is back at its default.
C14_FullReplace ==
  (OnExisting("update") /\ ~validateNoteData(last.request.body).threw) =>
    IF \E f \in RequiredFields : ~Truthy(last.request.body, f)
      THEN last.status = 400 /\ notes = last.before
      ELSE last.status = 200 =>
             /\ \A f \in DOMAIN Requested : notes[Source][f] = Requested[f]
             /\ \A f \in DOMAIN Defaults \ DOMAIN Requested :
                  notes[Source][f] = Defaults[f]

\* a create request, or an update request that names a stored note
CreateOrUpdate == last.op = "create" \/ OnExisting("update")

\* C16: on create and update a title of exactly 200 characters is accepted
\* and stored; a title of 201 characters is answered 400 with the
\* 'Validation error' envelope and nothing is stored or modified.
C16_TitleBoundary ==
  (CreateOrUpdate /\ "title" \in DOMAIN last.request.body) =>
    /\ last.request.body.title = Title200 =>
         /\ last.status \in {200, 201}
         /\ IF last.op = "create"
              THEN \E n \in Added : notes[n].title = Title200
              ELSE notes[Source].title = Title200
    /\ last.request.body.title = Title201 =>
         /\ last.status = 400
         /\ last.body.error = VALIDATION_ERROR
         /\ notes = last.before

\* the fields of a note a client sets, isArchived aside
OtherUserFields ==
  {"title", "content", "category", "type", "tags", "priority", "isFavorite"}

\* C15: archive on an existing note is answered 200 and leaves isArchived
\* true, whether or not the note was archived before; unarchive likewise
\* leaves it false; neither changes another user field of the note or
\* another note.
C15_ArchiveIdempotent ==
  (OnExisting("archive") \/ OnExisting("unarchive")) =>
    /\ last.status = 200
    /\ notes[Source].isArchived = (last.op = "archive")
    /\ \A f \in OtherUserFields : notes[Source][f] = last.before[Source][f]
    /\ \A n \in NoteIds \ {Source} : notes[n] = last.before[n]

\* no tag occurs twice
NoDuplicates(tags) ==
  \A i, j \in 1..Len(tags) : i # j => tags[i] # tags[j]

\* C17: every stored note has at most 10 tags, each of at most 50
\* characters and in lower case, no tag twice, and a title of at most 200
\* characters, after any sequence of create, update, duplicate, addTag,
\* bulk add-tag and bulk remove-tag.
C17_NoteInvariant ==
  \A n \in Stored(notes) :
    /\ Len(notes[n].tags) <= MAX_TAGS
    /\ \A i \in 1..Len(notes[n].tags) :
         /\ Len(notes[n].tags[i]) <= TAG_MAX_LENGTH
         /\ notes[n].tags[i] = toLowerCase(notes[n].tags[i])
    /\ NoDuplicates(notes[n].tags)
    /\ Len(notes[n].title) <= TITLE_MAX_LENGTH

\* the tags the description asks for: lower case and trimmed, no empty
\* tag, no tag twice, and then the first ten
ExpectedTags(input) ==
  Slice(Unique(SelectSeq([i \in 1..Len(input) |-> trim(toLowerCase(input[i]))],
                         LAMBDA tag : Len(tag) > 0)),
        MAX_TAGS)

CreatedWithTags ==
  /\ last.op = "create"
  /\ "tags" \in DOMAIN last.request.body

\* C18: a note created with a tag list stores the list with each tag in
\* lower case and trimmed, the empty tags removed, each tag once at its
\* first place, and after that cut to the first 10; more than 10 entries
\* with 10 distinct ones among them give exactly 10 tags.
C18_TagSanitization ==
  CreatedWithTags =>
    /\ last.status = 201
    /\ \E n \in Added :
         notes[n].tags = ExpectedTags(last.request.body.tags)

SingleOps ==
  {"get", "update", "delete", "archive", "unarchive", "favorite", "duplicate"}

\* the request was refused with the given status and error and left the
\* collection as it was
Refused(status, error) ==
  /\ last.status = status
  /\ "error" \in DOMAIN last.body
  /\ last.body.error = error
  /\ notes = last.before

\* C19: a request for one note by id is answered 400 'Invalid note ID
\* format' when the id is not 24 hexadecimal characters and 404 'Note not
\* found' when the id is well-formed and no note has it, both without a
\* change to the collection; otherwise it works on that note only: no
\* other stored note changes and only duplicate adds a note.
C19_IdHandling ==
  last.op \in SingleOps =>
    IF ~isValidObjectId(last.request.id)
      THEN Refused(400, "Invalid note ID format")
    ELSE IF FindNote(last.before, last.request.id) = 0
      THEN Refused(404, NOTE_NOT_FOUND)
    ELSE /\ last.status # 404
         /\ "error" \in DOMAIN last.body => last.body.error # "Invalid note ID format"
         /\ \A n \in Stored(last.before) \ {Source} : notes[n] = last.before[n]
         /\ Added # {} => last.op = "duplicate"

\* the parameter is missing or does not start, after white space and a sign,
\* with a digit
NotANumber(query, key) ==
  \/ key \notin DOMAIN query
  \/ \A i \in 1..Len(query[key]) :
       query[key][i] \in DigitChars =>
         \E j \in 1..(i - 1) :
           /\ query[key][j] \notin SpaceChars
           /\ ~(query[key][j] \in {"+", "-"}
                  /\ \A k \in 1..(j - 1) : query[key][k] \in SpaceChars)

Given(key) == key \in DOMAIN last.request /\ last.request[key] # << >>

\* C21: the filter always has isArchived, true exactly when archived is the
\* string 'true'; category, type, priority, tags and search are in the
\* filter exactly when the parameter was sent and is not empty; the empty
\* query gives exactly {isArchived: false}.
C21_FilterPredicates ==
  last.op = "list" =>
    /\ "isArchived" \in DOMAIN last.find
    /\ last.find.isArchived =
         ("archived" \in DOMAIN last.request /\ last.request.archived = True)
    /\ \A key \in {"category", "type", "priority", "tags"} :
         key \in DOMAIN last.find <=> Given(key)
    /\ "or" \in DOMAIN last.find <=> Given("search")
    /\ last.request = NoField => last.find = [isArchived |-> FALSE]

\* Note.find was called with a filter
FilterBuilt == last.op = "list" /\ "isArchived" \in DOMAIN last.find

\* C22: the filter has isFavorite exactly when favorite was sent: true for
\* favorite=true, false for any other value, absent without the parameter.
C22_FavoritePredicate ==
  FilterBuilt =>
    /\ "isFavorite" \in DOMAIN last.find <=> "favorite" \in DOMAIN last.request
    /\ "isFavorite" \in DOMAIN last.find =>
         last.find.isFavorite = (last.request.favorite = True)

\* the text holds the term as it is written, letter case aside
Contains(text, term) ==
  \E i \in 1..(Len(text) - Len(term) + 1) :
    toLowerCase(SubSeq(text, i, i + Len(term) - 1)) = toLowerCase(term)

LiteralHit(doc, term) ==
  \/ Contains(doc.title, term)
  \/ Contains(doc.content, term)
  \/ \E i \in 1..Len(doc.tags) : Contains(doc.tags[i], term)

\* C23: a list request with a search term, regular-expression characters
\* among them, is answered 200 with the notes that hold the term as a
\* literal substring (and pass the other predicates); the filter builder
\* does not throw.
C23_SearchIsLiteral ==
  (last.op = "list" /\ Given("search") /\ trim(last.request.search) # << >>) =>
    /\ last.status = 200
    /\ "isArchived" \in DOMAIN last.find
    /\ last.body.data.notes =
         {n \in Stored(notes) :
            /\ Accepts([k \in DOMAIN last.find \ {"or"} |-> last.find[k]], notes[n])
            /\ LiteralHit(notes[n], trim(last.request.search))}

\* a response has been sent
Responded == "status" \in DOMAIN last /\ "body" \in DOMAIN last

\* C24: every success response has success true, a message and a timestamp;
\* every failure response has success false, an error and a timestamp.
C24_Envelope ==
  Responded =>
    IF last.status >= 200 /\ last.status < 300
      THEN /\ {"success", "message", "timestamp"} \subseteq DOMAIN last.body
           /\ last.body.success = TRUE
      ELSE /\ {"success", "error", "timestamp"} \subseteq DOMAIN last.body
           /\ last.body.success = FALSE

\* a login has reached the account it names
ReachedAccount == last.op = "login" /\ last.lookedUp /\ last.target # 0

\* C25: a login that reaches an inactive account is answered 401 Account
\* Inactive, locked or not, and the password is not compared.
C25_InactiveRejected ==
  (ReachedAccount /\ ~last.active) =>
    /\ last.status = 401
    /\ last.body = AccountInactive
    /\ ~last.compared

Unlocked ==
  /\ last.status = 200
  /\ users[last.target].loginAttempts = 0
  /\ ~isLocked(users[last.target], now)
  /\ "tokens" \in DOMAIN last.body

\* C26 as stated: a login with the right password brings a locked (active)
\* account back: it succeeds, the counter is reset and tokens are issued.
C26_UnlockedByPassword ==
  (ReachedAccount /\ last.active /\ last.correct /\ last.locked) => Unlocked

\* C26, amended: a locked account comes back only when its lock has
\* expired.  While it is locked a login with the right password is
\* answered Account Locked and leaves it locked; once the lock has expired
\* such a login succeeds, resets the counter and the lock and issues
\* tokens.
C26_UnlockedByExpiry ==
  (ReachedAccount /\ last.active /\ last.correct) =>
    IF last.locked
      THEN /\ RespondedLocked
           /\ last.untouched
           /\ isLocked(users[last.target], now)
      ELSE Unlocked

\* an account that had been locked was logged in after the lock expired
C26_Witness ==
  /\ ReachedAccount
  /\ last.counter >= MAX_LOGIN_ATTEMPTS
  /\ ~last.locked
  /\ Unlocked

\* C27: the result of sanitizeInput holds no '<', '>', single or double
\* quote, no 'javascript:' in any letter case and no on\w+= in any letter
\* case, also where the removal of one occurrence joins the pieces of
\* another; an argument that is not a string gives the empty string.
C27_SanitizedClean ==
  last.op = "sanitized" =>
    /\ \A i \in 1..Len(last.result) :
         /\ last.result[i] \notin {"<", ">", "'", "\""}
         /\ MatchJavascript(last.result, i) = 0
         /\ MatchOnHandler(last.result, i) = 0
    /\ last.request.type # "string" => last.result = Empty

\* C28: under every interleaving of the timeout callback and the handler a
\* request gets at most one response and a finished one exactly one; when
\* the timeout fired the response is the 503 and the handler's completion
\* raises no unhandled rejection and starts no shutdown; when the handler
\* finished first no 503 is sent.
C28_OneResponse ==
  /\ last.op \notin {"shutdown", "exit"}
  /\ \A r \in Slots :
       reg[r].pc # "idle" =>
         /\ reg[r].pc \in {"awaiting", "done"}
         /\ Len(reg[r].sent) <= 1
         /\ reg[r].pc = "done" => Len(reg[r].sent) = 1
         /\ reg[r].timer = "fired" =>
              reg[r].sent = <<[status |-> 503, body |-> RequestTimeout]>>
         /\ reg[r].timer = "armed" =>
              \A i \in 1..Len(reg[r].sent) : reg[r].sent[i].status # 503

\* the toggle request of slot r was answered 200
Toggled(r) == reg[r].pc = "done" /\ reg[r].status = 200

\* C29: two toggle requests on the same note, in any interleaving of their
\* read and write steps, leave isFavorite equal to its original value (no
\* update is lost), and the response of each reports the state its own save
\* wrote.
C29_NoLostUpdate ==
  /\ \A r \in Slots :
       Toggled(r) =>
         reg[r].body.message = IF reg[r].body.data.isFavorite
                                 THEN "Note added to favorites"
                                 ELSE "Note removed from favorites"
  /\ \A r, q \in Slots :
       (r # q /\ Toggled(r) /\ Toggled(q) /\ reg[r].n = reg[q].n) =>
         /\ notes[reg[r].n].isFavorite = SeedNotes[reg[r].n].isFavorite
         /\ reg[r].body.data.isFavorite # reg[q].body.data.isFavorite

\* the call of slot r is under way
Connecting(r) == reg[r].pc \in {"connect", "setTimeout"}

\* what a call of connectToDatabase has done so far, and how it ended
ConnectBounded(r) ==
  /\ reg[r].pc # "idle" => reg[r].connects <= RETRY_ATTEMPTS + 1
  /\ Connecting(r) => reg[r].connects = reg[r].retryCount +
                                        (IF reg[r].pc = "setTimeout" THEN 1 ELSE 0)
  /\ reg[r].pc = "returned" => db.cachedConnection = reg[r].connection
  /\ reg[r].pc = "threw" =>
       /\ reg[r].error = "Failed to connect to database"
       /\ reg[r].connects = IF db.MONGODB_URI THEN RETRY_ATTEMPTS + 1 ELSE 0

\* a step in which slot r calls connectToDatabase
ConnectCalled(r) ==
  /\ reg[r].pc = "idle"
  /\ reg'[r].pc # "idle"
  /\ (cachedReady(db) => reg'[r].pc = "returned" /\ reg'[r].connects = 0)
  /\ (~cachedReady(db) /\ ~db.MONGODB_URI =>
        reg'[r].pc = "threw" /\ reg'[r].connects = 0)
  /\ (~cachedReady(db) /\ db.MONGODB_URI => reg'[r].pc = "connect")

\* a step in which an attempt of slot r settles: success returns at once
\* and caches, failure ends the call only at the last attempt
ConnectSettled(r) ==
  /\ reg[r].pc = "connect"
  /\ reg'[r].pc # "connect"
  /\ reg'[r].connects = reg[r].connects + 1
  /\ reg'[r].pc \in {"returned", "setTimeout", "threw"}
  /\ reg'[r].pc = "returned" => cachedReady(db')
  /\ reg'[r].pc = "threw" => reg'[r].connects = RETRY_ATTEMPTS + 1

\* C30: a call of connectToDatabase ends; it calls mongoose.connect at most
\* RETRY_ATTEMPTS + 1 = 4 times, returns and caches the connection when an
\* attempt succeeds and throws 'Failed to connect to database' once all
\* four failed; with a cached connection of readyState 1 a call returns it
\* without an attempt, and without MONGODB_URI a call fails without one.
C30_ConnectTerminates ==
  /\ [](\A r \in Slots : ConnectBounded(r))
  /\ [][\A r \in Slots :
          /\ (reg[r].pc = "idle" /\ reg'[r].pc # "idle") => ConnectCalled(r)
          /\ (reg[r].pc = "connect" /\ reg'[r].pc # "connect") => ConnectSettled(r)]_vars
  /\ \A r \in Slots : Connecting(r) ~> (reg[r].pc \in {"returned", "threw"})

\* one call threw after four failed attempts while another call returned
\* the cached connection without an attempt
C30_Witness ==
  \E r, q \in Slots :
    /\ reg[r].pc = "threw" /\ reg[r].connects = 4
    /\ reg[q].pc = "returned" /\ reg[q].connects = 0

====
